---- MODULE Spec2Model ----
(***************************************************************************)
(* A model of the PDF accessibility UI repository:                         *)
(*   - ProcessingContainer: timer driven polling of S3 for a result file   *)
(*   - Header: rendering of the usage quota                                *)
(*   - the deploy scripts (one stage, two stage with CDK outputs, two      *)
(*     stage with SSM parameters)                                          *)
(*   - CdkBackendStack: bucket validation in the constructor               *)
(*   - AccessibilityChecker: bounded retry of the report fetches           *)
(* Each part has its own specification; the variables of the other parts   *)
(* stay at their initial value.                                            *)
(***************************************************************************)
EXTENDS Integers, Sequences, FiniteSets, TLC

(***************************************************************************)
(* Bounds of the model.                                                    *)
(***************************************************************************)
MaxInFlight == 2
MaxElapsed == 1
MaxMounts == 2
MaxPropsChanges == 1
CallCap == 2
MaxParts == 3
MaxRetries == 2
MaxInputChanges == 2
MaxOverlap == 2
MaxNameParts == 5

(***************************************************************************)
(* Program constants.                                                      *)
(***************************************************************************)
MAX_POLLING_ATTEMPTS == 120
ProcessingStepsLength == 4

VARIABLES
  \* ---- ProcessingContainer and its environment ----
  PDFBucket,        \* utilities/constants: bucket name or Undefined
  HTMLBucket,
  mounted,          \* the component instance is mounted
  props,            \* the props of the last render
  downloadUrl,
  isFileReady,
  currentStep,
  elapsedTime,
  pollingAttempts,
  effectRan,        \* the polling effect has run for this instance
  effectDeps,       \* dependency values of the last effect run
  curTimers,        \* active timers created by the last effect run
  staleTimers,      \* active timers created by earlier effect runs
  inflight,         \* started checkFileAvailability calls awaiting S3
  s3Objects,        \* objects present in storage
  s3Healthy,        \* the SDK calls (requests, signing) do not fail by themselves
  headOk,           \* objects for which HeadObject has succeeded
  presigned,        \* URLs produced by getSignedUrl
  notified,         \* URLs passed to onFileReady
  readyCalls,       \* number of onFileReady calls per uploaded file
  checksIssued,     \* HeadObject requests sent (saturating at checkCap)
  checkCap,
  rejected,         \* an await of some check has been rejected
  uncaught,         \* an exception escaped checkFileAvailability
  mounts,           \* times the parent has mounted the component
  propsChanges,     \* times the parent has changed the props
  skipped           \* a poll found the bucket or the credentials missing,
                    \* and the inputs are still the ones it ran with

pcVars == <<PDFBucket, HTMLBucket, mounted, props, downloadUrl, isFileReady,
            currentStep, elapsedTime, pollingAttempts, effectRan, effectDeps,
            curTimers, staleTimers, inflight, s3Objects, s3Healthy, headOk,
            presigned, notified, readyCalls, checksIssued, checkCap, rejected,
            uncaught, mounts, propsChanges, skipped>>

VARIABLES
  \* ---- the request of one check, as a function of the props ----
  keyIn,            \* selectedFormat, updatedFilename, originalFileName
  keyOut            \* the bucket, key and download name computed from them

keyVars == <<keyIn, keyOut>>

VARIABLES
  \* ---- Header ----
  headerProps,      \* usageCount, maxFilesAllowed, usageError, loadingUsage
  headerView        \* what the last render produced

headerVars == <<headerProps, headerView>>

VARIABLES
  \* ---- the deploy scripts ----
  script,           \* which of the three scripts runs
  dpc,              \* the step the script is at (or stopped at)
  exited,           \* the shell has exited
  exitStatus,       \* its exit status, once exited
  PDF_TO_PDF_BUCKET,
  PDF_TO_HTML_BUCKET,
  ENV_VARS_ARRAY,
  FRONTEND_ENV_VARS_ARRAY,
  BUILD_STATUS,
  shellEnv,         \* values of the CDK output variables in the environment
  awsCalls,         \* AWS CLI commands that have been run
  output,           \* messages printed so far
  backendSeen,      \* statuses the backend build has been observed with
  frontendSeen      \* statuses the frontend build has been observed with

deployVars == <<script, dpc, exited, exitStatus, PDF_TO_PDF_BUCKET,
                PDF_TO_HTML_BUCKET, ENV_VARS_ARRAY, FRONTEND_ENV_VARS_ARRAY,
                BUILD_STATUS, shellEnv, awsCalls, output, backendSeen,
                frontendSeen>>

VARIABLES
  \* ---- CdkBackendStack constructor ----
  context,          \* the context values given on the command line
  cdkStep,          \* the step the constructor is at
  bucketNames,      \* the constants PDF_TO_PDF_BUCKET and PDF_TO_HTML_BUCKET
  thrown,           \* the message of the error thrown, or ""
  pdfBucket,        \* name of the imported bucket, or Undefined
  htmlBucket,
  mainBucket,
  s3Resources,
  branchEnvironment \* environment variables of the Amplify branch

cdkVars == <<context, cdkStep, bucketNames, thrown, pdfBucket, htmlBucket,
             mainBucket, s3Resources, branchEnvironment>>

VARIABLES
  \* ---- AccessibilityChecker ----
  s3,               \* the S3 client exists (credentials are available)
  fetch             \* per report: the state of its fetch invocation

checkerVars == <<s3, fetch>>

VARIABLES
  \* ---- RemediatedFilesContainer ----
  filesInputs,      \* awsCredentials, auth.user and refreshFlag
  filesEffectRan,   \* the effect has run
  filesEffectDeps,  \* the dependencies of its last run
  files,            \* the files state
  loads,            \* the loadAll calls that have not ended, oldest first
  bucketContents,   \* per bucket: the objects under the user's prefix
  loadsStarted,     \* number of loadAll calls so far
  appliedLoad,      \* the loadAll call that set files last (0: none)
  newest,           \* the youngest call that got its result, and that result
  failedLoads,      \* calls in which a listing was rejected
  unsignedLoads,    \* calls in which the signing of a URL threw
  logged,           \* calls whose catch logged an error
  inputChanges      \* number of changes of the inputs

filesVars == <<filesInputs, filesEffectRan, filesEffectDeps, files, loads,
               bucketContents, loadsStarted, appliedLoad, newest, failedLoads,
               unsignedLoads, logged, inputChanges>>

VARIABLES
  \* ---- normalizePdfFilename ----
  sanitized,        \* the argument of the first call
  readable,         \* what the first call returned
  readableAgain,    \* what a call on that result returned
  normalizeCalls    \* number of calls made

normalizeVars == <<sanitized, readable, readableAgain, normalizeCalls>>

nonPcVars == <<keyVars, headerVars, deployVars, cdkVars, checkerVars,
               filesVars, normalizeVars>>

vars == <<pcVars, nonPcVars>>

notKeyVars ==
  <<pcVars, headerVars, deployVars, cdkVars, checkerVars, filesVars, normalizeVars>>

notHeaderVars ==
  <<pcVars, keyVars, deployVars, cdkVars, checkerVars, filesVars, normalizeVars>>

notDeployVars ==
  <<pcVars, keyVars, headerVars, cdkVars, checkerVars, filesVars, normalizeVars>>

notCdkVars ==
  <<pcVars, keyVars, headerVars, deployVars, checkerVars, filesVars, normalizeVars>>

notCheckerVars ==
  <<pcVars, keyVars, headerVars, deployVars, cdkVars, filesVars, normalizeVars>>

notFilesVars ==
  <<pcVars, keyVars, headerVars, deployVars, cdkVars, checkerVars,
    normalizeVars>>

notNormalizeVars ==
  <<pcVars, keyVars, headerVars, deployVars, cdkVars, checkerVars,
    filesVars>>

(***************************************************************************)
(* Strings are sequences of one-character strings, so that replace() and   *)
(* the whitespace pattern are computed and not assumed.  A fixed prefix of *)
(* a template literal is one element.                                      *)
(***************************************************************************)
Undefined == "undefined"

Whitespace == {" ", "\t", "\n"}

DotPdf == <<".", "p", "d", "f">>
DotZip == <<".", "z", "i", "p">>

StartsWith(s, pat) ==
  /\ Len(s) >= Len(pat)
  /\ SubSeq(s, 1, Len(pat)) = pat

\* String.prototype.replace(pattern: string, replacement): first occurrence only
RECURSIVE ReplaceFirst(_, _, _)
ReplaceFirst(s, pat, rep) ==
  IF s = <<>> THEN <<>>
  ELSE IF StartsWith(s, pat) THEN rep \o SubSeq(s, Len(pat) + 1, Len(s))
  ELSE <<Head(s)>> \o ReplaceFirst(Tail(s), pat, rep)

\* String.prototype.replace(/\s/g, '_')
RECURSIVE ReplaceWhitespace(_)
ReplaceWhitespace(s) ==
  IF s = <<>> THEN <<>>
  ELSE <<(IF Head(s) \in Whitespace THEN "_" ELSE Head(s))>>
         \o ReplaceWhitespace(Tail(s))

(***************************************************************************)
(* ProcessingContainer: values of props and configuration.                 *)
(***************************************************************************)
FileA == <<"a", " ", "b">> \o DotPdf
FileB == <<"r">> \o DotPdf \o <<"\t">> \o DotPdf
OrigA == <<"a">> \o DotPdf

FileNames == {<<>>, FileA, FileB}
Formats == {"html", "pdf"}

NoCredentials == [accessKeyId |-> Undefined, ident |-> 0]
Credentials1 == [accessKeyId |-> "AKIA1", ident |-> 1]

PdfBucketName == "pdf-bucket"
HtmlBucketName == "html-bucket"

MkProps(name, format, callback, credentials) ==
  [originalFileName |-> OrigA,
   updatedFilename |-> name,
   onFileReady |-> callback,
   awsCredentials |-> credentials,
   selectedFormat |-> format]

\* the props the parent passes in the model
PropsSet ==
  {MkProps(FileA, "html", 1, Credentials1),
   MkProps(FileA, "pdf", 1, Credentials1),
   MkProps(FileB, "html", 1, Credentials1),
   MkProps(<<>>, "pdf", 1, Credentials1),
   MkProps(FileA, "pdf", 1, NoCredentials),
   MkProps(FileA, "pdf", 2, Credentials1)}

NoUrl == [bucket |-> "", key |-> <<>>, filename |-> <<>>]

Kinds == {"poll", "time", "step"}

\* line 102: selectedFormat === 'html' ? HTMLBucket : PDFBucket
SelectedBucketMutFlipped(selectedFormat) ==
  IF selectedFormat = "html" THEN PDFBucket ELSE HTMLBucket

SelectedBucket(selectedFormat) ==
  IF selectedFormat = "html" THEN HTMLBucket ELSE PDFBucket

\* lines 132-134
ObjectKeyMutNoUnderscore(selectedFormat, updatedFilename) ==
  IF selectedFormat = "html"
  THEN <<"remediated/final_">> \o ReplaceFirst(updatedFilename, DotPdf, DotZip)
  ELSE <<"result/COMPLIANT_">> \o updatedFilename

RECURSIVE ReplaceEvery(_, _, _)
ReplaceEvery(s, pat, rep) ==
  IF s = <<>> THEN <<>>
  ELSE IF StartsWith(s, pat)
       THEN rep \o ReplaceEvery(SubSeq(s, Len(pat) + 1, Len(s)), pat, rep)
       ELSE <<Head(s)>> \o ReplaceEvery(Tail(s), pat, rep)

ObjectKeyMutReplacesAllPdf(selectedFormat, updatedFilename) ==
  IF selectedFormat = "html"
  THEN <<"remediated/final_">>
         \o ReplaceWhitespace(ReplaceEvery(updatedFilename, DotPdf, DotZip))
  ELSE <<"result/COMPLIANT_">> \o updatedFilename

ObjectKey(selectedFormat, updatedFilename) ==
  IF selectedFormat = "html"
  THEN <<"remediated/final_">>
         \o ReplaceWhitespace(ReplaceFirst(updatedFilename, DotPdf, DotZip))
  ELSE <<"result/COMPLIANT_">> \o updatedFilename

\* lines 145-147
DesiredFilename(selectedFormat, originalFileName) ==
  IF selectedFormat = "html"
  THEN <<"final_">> \o ReplaceFirst(originalFileName, DotPdf, DotZip)
  ELSE <<"COMPLIANT_">> \o originalFileName

\* the dependency array of the polling effect (line 196); generatePresignedUrl
\* changes with awsCredentials and processingSteps.length is constant
Deps ==
  [updatedFilename |-> props.updatedFilename,
   isFileReady |-> isFileReady,
   onFileReady |-> props.onFileReady,
   awsCredentials |-> props.awsCredentials,
   originalFileName |-> props.originalFileName,
   selectedFormat |-> props.selectedFormat,
   pollingAttempts |-> pollingAttempts]

\* React re-runs the effect after a render in which a dependency changed
EffectPending == mounted /\ (~effectRan \/ effectDeps # Deps)

\* the effect's cleanup (lines 191-195): the timers of the run left active
EffectCleanupMutKeepsPoll(timers) == timers \cap {"poll"}

EffectCleanup(timers) == timers \ {"poll", "time", "step"}

\* line 173
ShouldPollMutIgnoresReady == props.updatedFilename # <<>>

ShouldPoll == props.updatedFilename # <<>> /\ ~isFileReady

\* lines 84-170: the try block covers both awaits, the catch only logs
CheckCatchesMutOnlyHead(stage) == stage = "head"

CheckCatches(stage) == stage \in {"head", "presign"}

Saturate(n, cap) == IF n < cap THEN n + 1 ELSE n

StaleAll(checks) == [i \in DOMAIN checks |-> [checks[i] EXCEPT !.cur = FALSE]]

DeadAll(checks) ==
  [i \in DOMAIN checks |-> [checks[i] EXCEPT !.cur = FALSE, !.inst = FALSE]]

RemoveAt(seq, i) == SubSeq(seq, 1, i - 1) \o SubSeq(seq, i + 1, Len(seq))

InitialComponentState ==
  /\ downloadUrl = NoUrl
  /\ isFileReady = FALSE
  /\ currentStep = 0
  /\ elapsedTime = 0
  /\ pollingAttempts = 0

(***************************************************************************)
(* ProcessingContainer: the operations.  Every action is one JavaScript    *)
(* task; React runs a pending effect before the next task, so every task   *)
(* other than the effect itself waits for it.                              *)
(***************************************************************************)

\* the parent renders the component for an upload
Mount(p) ==
  /\ ~mounted
  /\ mounts < MaxMounts
  /\ mounts' = mounts + 1
  /\ mounted' = TRUE
  /\ props' = p
  /\ downloadUrl' = NoUrl
  /\ isFileReady' = FALSE
  /\ currentStep' = 0
  /\ elapsedTime' = 0
  /\ pollingAttempts' = 0
  /\ effectRan' = FALSE
  /\ skipped' = FALSE
  /\ UNCHANGED <<PDFBucket, HTMLBucket, effectDeps, curTimers, staleTimers,
                 inflight, s3Objects, s3Healthy, headOk, presigned, notified,
                 readyCalls, checksIssued, checkCap, rejected, uncaught, propsChanges>>
  /\ UNCHANGED nonPcVars

\* the parent removes the component (onNewUpload): the cleanup runs
Unmount ==
  /\ mounted
  /\ ~EffectPending
  /\ mounted' = FALSE
  /\ curTimers' = {}
  /\ staleTimers' = staleTimers \cup EffectCleanup(curTimers)
  /\ inflight' = DeadAll(inflight)
  /\ downloadUrl' = NoUrl
  /\ isFileReady' = FALSE
  /\ currentStep' = 0
  /\ elapsedTime' = 0
  /\ pollingAttempts' = 0
  /\ skipped' = FALSE
  /\ UNCHANGED <<PDFBucket, HTMLBucket, props, effectRan, effectDeps,
                 s3Objects, s3Healthy, headOk, presigned, notified,
                 readyCalls, checksIssued, checkCap, rejected, uncaught, mounts, propsChanges>>
  /\ UNCHANGED nonPcVars

\* the parent renders the mounted component with other props
PropsChange(p) ==
  /\ mounted
  /\ ~EffectPending
  /\ p # props
  /\ propsChanges < MaxPropsChanges
  /\ propsChanges' = propsChanges + 1
  /\ props' = p
  /\ skipped' = FALSE
  /\ UNCHANGED <<PDFBucket, HTMLBucket, mounted, downloadUrl, isFileReady,
                 currentStep, elapsedTime, pollingAttempts, effectRan,
                 effectDeps, curTimers, staleTimers, inflight, s3Objects,
                 s3Healthy, headOk, presigned, notified, readyCalls,
                 checksIssued, checkCap, rejected, uncaught, mounts>>
  /\ UNCHANGED nonPcVars

\* lines 75-79, 173-196: cleanup of the previous run, then the effect body
EffectFlush ==
  /\ EffectPending
  /\ effectRan' = TRUE
  /\ effectDeps' = Deps
  /\ staleTimers' =
       staleTimers \cup (IF effectRan THEN EffectCleanup(curTimers) ELSE {})
  /\ inflight' = StaleAll(inflight)
  /\ IF ShouldPoll
     THEN /\ pollingAttempts' = 0
          /\ curTimers' = {"time", "step", "poll"}
     ELSE /\ pollingAttempts' = pollingAttempts
          /\ curTimers' = {}
  /\ UNCHANGED skipped
  /\ UNCHANGED <<PDFBucket, HTMLBucket, mounted, props, downloadUrl,
                 isFileReady, currentStep, elapsedTime, s3Objects, s3Healthy,
                 headOk, presigned, notified, readyCalls, checksIssued,
                 checkCap, rejected, uncaught, mounts, propsChanges>>
  /\ UNCHANGED nonPcVars

\* lines 178-180
TimeTick ==
  /\ mounted
  /\ ~EffectPending
  /\ "time" \in curTimers
  /\ elapsedTime < MaxElapsed
  /\ elapsedTime' = elapsedTime + 1
  /\ UNCHANGED skipped
  /\ UNCHANGED <<PDFBucket, HTMLBucket, mounted, props, downloadUrl,
                 isFileReady, currentStep, pollingAttempts, effectRan,
                 effectDeps, curTimers, staleTimers, inflight, s3Objects,
                 s3Healthy, headOk, presigned, notified, readyCalls,
                 checksIssued, checkCap, rejected, uncaught, mounts, propsChanges>>
  /\ UNCHANGED nonPcVars

\* lines 183-185
StepTick ==
  /\ mounted
  /\ ~EffectPending
  /\ "step" \in curTimers
  /\ currentStep' = (currentStep + 1) % ProcessingStepsLength
  /\ UNCHANGED skipped
  /\ UNCHANGED <<PDFBucket, HTMLBucket, mounted, props, downloadUrl,
                 isFileReady, elapsedTime, pollingAttempts, effectRan,
                 effectDeps, curTimers, staleTimers, inflight, s3Objects,
                 s3Healthy, headOk, presigned, notified, readyCalls,
                 checksIssued, checkCap, rejected, uncaught, mounts, propsChanges>>
  /\ UNCHANGED nonPcVars

\* lines 86-99: the updater of setPollingAttempts; TRUE when it clears the timers
AttemptLimitReached(newAttempts) == newAttempts >= MAX_POLLING_ATTEMPTS

\* lines 80-144 and 188: the poll timer fires and checkFileAvailability runs
\* up to its first await
PollTick ==
  /\ mounted
  /\ ~EffectPending
  /\ "poll" \in curTimers
  /\ Len(inflight) < MaxInFlight
  /\ LET newAttempts == pollingAttempts + 1
         selectedBucket == SelectedBucket(props.selectedFormat)
         noBucket == selectedBucket \in {Undefined, ""}
         noCreds == props.awsCredentials.accessKeyId \in {Undefined, ""}
         objectKey == ObjectKey(props.selectedFormat, props.updatedFilename)
     IN  /\ pollingAttempts' = newAttempts
         /\ curTimers' =
              IF AttemptLimitReached(newAttempts) \/ noBucket \/ noCreds
              THEN {} ELSE curTimers
         /\ skipped' = (skipped \/ noBucket \/ noCreds)
         /\ IF noBucket \/ noCreds
            THEN UNCHANGED <<inflight, checksIssued>>
            ELSE /\ inflight' = Append(inflight,
                       [cur |-> TRUE, inst |-> TRUE,
                        selectedFormat |-> props.selectedFormat,
                        updatedFilename |-> props.updatedFilename,
                        originalFileName |-> props.originalFileName,
                        bucket |-> selectedBucket, key |-> objectKey,
                        stage |-> "head"])
                 /\ checksIssued' = Saturate(checksIssued, checkCap)
  /\ UNCHANGED <<PDFBucket, HTMLBucket, mounted, props, downloadUrl,
                 isFileReady, currentStep, elapsedTime, effectRan, effectDeps,
                 staleTimers, s3Objects, s3Healthy, headOk, presigned,
                 notified, readyCalls, checkCap, rejected, uncaught, mounts, propsChanges>>
  /\ UNCHANGED nonPcVars

\* lines 84, 139-149, 162: a rejected await leaves the try block for the catch
AfterAwaitMutIgnoresRejection(resolved) == "continue"

AfterAwait(resolved) == IF resolved THEN "continue" ELSE "catch"

\* lines 139-144: HeadObject resolves when the object exists, rejects otherwise
\* or on a transport error; lines 162-170: the catch
HeadResponse(i, ok) ==
  /\ ~EffectPending
  /\ i \in DOMAIN inflight
  /\ inflight[i].stage = "head"
  /\ LET c == inflight[i]
         obj == [bucket |-> c.bucket, key |-> c.key]
     IN  /\ ok => (obj \in s3Objects /\ s3Healthy)
         /\ ~ok => (obj \notin s3Objects \/ ~s3Healthy)
         /\ headOk' = IF ok THEN headOk \cup {obj} ELSE headOk
         /\ rejected' = (rejected \/ ~ok)
         /\ IF AfterAwait(ok) = "continue"
            THEN /\ inflight' = [inflight EXCEPT ![i].stage = "presign"]
                 /\ UNCHANGED uncaught
            ELSE /\ inflight' = RemoveAt(inflight, i)
                 /\ uncaught' = (uncaught \/ ~CheckCatches("head"))
  /\ UNCHANGED skipped
  /\ UNCHANGED <<PDFBucket, HTMLBucket, mounted, props, downloadUrl,
                 isFileReady, currentStep, elapsedTime, pollingAttempts,
                 effectRan, effectDeps, curTimers, staleTimers, s3Objects,
                 s3Healthy, presigned, notified, readyCalls, checksIssued,
                 checkCap, mounts, propsChanges>>
  /\ UNCHANGED nonPcVars

\* lines 31-54, 145-161: getSignedUrl settles; on success the state is set,
\* onFileReady is called and the timers of the check's effect run are cleared.
\* A state setter of an instance that is no longer mounted does nothing.
PresignResponse(i, ok) ==
  /\ ~EffectPending
  /\ i \in DOMAIN inflight
  /\ inflight[i].stage = "presign"
  /\ ok = s3Healthy
  /\ LET c == inflight[i]
         url == [bucket |-> c.bucket, key |-> c.key,
                 filename |-> DesiredFilename(c.selectedFormat,
                                              c.originalFileName)]
     IN  /\ inflight' = RemoveAt(inflight, i)
         /\ rejected' = (rejected \/ ~ok)
         /\ IF AfterAwait(ok) = "continue"
            THEN /\ presigned' = (IF ok THEN presigned \cup {url} ELSE presigned)
                 /\ IF c.inst
                    THEN /\ downloadUrl' = url
                         /\ isFileReady' = TRUE
                         /\ currentStep' = ProcessingStepsLength - 1
                    ELSE UNCHANGED <<downloadUrl, isFileReady, currentStep>>
                 /\ notified' = notified \cup {url}
                 /\ readyCalls' =
                      [readyCalls EXCEPT ![c.updatedFilename] =
                         Saturate(@, CallCap)]
                 /\ curTimers' = IF c.cur THEN {} ELSE curTimers
                 /\ UNCHANGED uncaught
            ELSE /\ uncaught' = (uncaught \/ ~CheckCatches("presign"))
                 /\ UNCHANGED <<presigned, downloadUrl, isFileReady,
                                currentStep, notified, readyCalls, curTimers>>
  /\ UNCHANGED skipped
  /\ UNCHANGED <<PDFBucket, HTMLBucket, mounted, props, elapsedTime,
                 pollingAttempts, effectRan, effectDeps, staleTimers,
                 s3Objects, s3Healthy, headOk, checksIssued, checkCap,
                 mounts, propsChanges>>
  /\ UNCHANGED nonPcVars

(***************************************************************************)
(* The environment of ProcessingContainer: the remediation backend writes  *)
(* the result of the uploaded file, and the SDK calls may fail for a while  *)
(* (network, expired credentials).                                         *)
(***************************************************************************)
ResultObjects ==
  {[bucket |-> HtmlBucketName,
    key |-> <<"remediated/final_", "a", "_", "b", ".", "z", "i", "p">>],
   [bucket |-> PdfBucketName,
    key |-> <<"result/COMPLIANT_", "a", " ", "b", ".", "p", "d", "f">>]}

BackendWrites(obj) ==
  /\ obj \notin s3Objects
  /\ s3Objects' = s3Objects \cup {obj}
  /\ UNCHANGED skipped
  /\ UNCHANGED <<PDFBucket, HTMLBucket, mounted, props, downloadUrl,
                 isFileReady, currentStep, elapsedTime, pollingAttempts,
                 effectRan, effectDeps, curTimers, staleTimers, inflight,
                 s3Healthy, headOk, presigned, notified, readyCalls,
                 checksIssued, checkCap, rejected, uncaught, mounts, propsChanges>>
  /\ UNCHANGED nonPcVars

TransportChanges ==
  /\ s3Healthy' = ~s3Healthy
  /\ UNCHANGED skipped
  /\ UNCHANGED <<PDFBucket, HTMLBucket, mounted, props, downloadUrl,
                 isFileReady, currentStep, elapsedTime, pollingAttempts,
                 effectRan, effectDeps, curTimers, staleTimers, inflight,
                 s3Objects, headOk, presigned, notified, readyCalls,
                 checksIssued, checkCap, rejected, uncaught, mounts, propsChanges>>
  /\ UNCHANGED nonPcVars

PcInitWith(cap) ==
  /\ PDFBucket = PdfBucketName
  /\ HTMLBucket \in {Undefined, HtmlBucketName}
  /\ mounted = FALSE
  /\ props = MkProps(<<>>, "pdf", 1, NoCredentials)
  /\ InitialComponentState
  /\ effectRan = FALSE
  /\ effectDeps = Deps
  /\ curTimers = {}
  /\ staleTimers = {}
  /\ inflight = <<>>
  /\ s3Objects = {}
  /\ s3Healthy = TRUE
  /\ headOk = {}
  /\ presigned = {}
  /\ notified = {}
  /\ readyCalls = [f \in FileNames |-> 0]
  /\ checksIssued = 0
  /\ checkCap = cap
  /\ rejected = FALSE
  /\ uncaught = FALSE
  /\ mounts = 0
  /\ propsChanges = 0
  /\ skipped = FALSE

PcNext ==
  \/ \E p \in PropsSet : Mount(p)
  \/ Unmount
  \/ \E p \in PropsSet : PropsChange(p)
  \/ EffectFlush
  \/ TimeTick
  \/ StepTick
  \/ PollTick
  \/ \E i \in 1..MaxInFlight, ok \in BOOLEAN : HeadResponse(i, ok)
  \/ \E i \in 1..MaxInFlight, ok \in BOOLEAN : PresignResponse(i, ok)
  \/ \E obj \in ResultObjects : BackendWrites(obj)
  \/ TransportChanges

(***************************************************************************)
(* The request of a check as a function of the props (lines 101-102,       *)
(* 131-147), applied to names built from a few pieces.                     *)
(***************************************************************************)
Pieces ==
  {<<"a">>, <<" ">>, <<"\t">>, DotPdf, <<".", "P", "D", "F">>, <<".", "p">>}

RECURSIVE NamesUpTo(_)
NamesUpTo(n) ==
  IF n = 0 THEN {<<>>}
  ELSE LET shorter == NamesUpTo(n - 1)
       IN  shorter \cup {x \o piece : x \in shorter, piece \in Pieces}

OriginalNames ==
  {<<>>, OrigA, <<"x">> \o DotPdf \o DotPdf, <<"n", " ", "m", ".", "p">>}

KeyFormats == {"html", "pdf", "HTML"}

NoRequest == [computed |-> FALSE, bucket |-> "", key |-> <<>>, filename |-> <<>>]

KeyIdle ==
  /\ keyIn = [selectedFormat |-> "pdf", updatedFilename |-> <<>>,
              originalFileName |-> <<>>]
  /\ keyOut = NoRequest

KeyInit ==
  /\ keyIn \in [selectedFormat : KeyFormats,
                updatedFilename : NamesUpTo(MaxParts),
                originalFileName : OriginalNames]
  /\ keyOut = NoRequest

\* lines 102, 132-134, 145-147 for the props keyIn
ComputeRequest ==
  /\ ~keyOut.computed
  /\ keyOut' =
       [computed |-> TRUE,
        bucket |-> SelectedBucket(keyIn.selectedFormat),
        key |-> ObjectKey(keyIn.selectedFormat, keyIn.updatedFilename),
        filename |-> DesiredFilename(keyIn.selectedFormat,
                                     keyIn.originalFileName)]
  /\ UNCHANGED keyIn
  /\ UNCHANGED notKeyVars

(***************************************************************************)
(* Header (Header.jsx lines 15-125): the usage text and the progress bar   *)
(* as a function of the props.  loadingUsage is an optional bool and       *)
(* usageError an optional string; toLocaleString groups the digits with    *)
(* the separator of the browser's locale.                                  *)
(***************************************************************************)
UsageValues == {0, 3, 5, 1000, 1234567}

LoadingValues == {"true", "false", Undefined}

UsageErrors == {Undefined, "", "Failed to fetch usage"}

GroupSeparators == {",", ".", " "}

DigitChars == <<"0", "1", "2", "3", "4", "5", "6", "7", "8", "9">>

\* JavaScript truthiness of the two optional props
TruthyBool(b) == b = "true"

TruthyString(s) == s \notin {Undefined, ""}

RECURSIVE Digits(_)
Digits(n) ==
  IF n < 10 THEN <<DigitChars[n + 1]>>
  ELSE Digits(n \div 10) \o <<DigitChars[(n % 10) + 1]>>

RECURSIVE Grouped(_, _)
Grouped(d, sep) ==
  IF Len(d) <= 3 THEN d
  ELSE Grouped(SubSeq(d, 1, Len(d) - 3), sep) \o <<sep>>
         \o SubSeq(d, Len(d) - 2, Len(d))

\* line 27-29: num.toLocaleString()
formatNumber(num, sep) == Grouped(Digits(num), sep)

Min(a, b) == IF a <= b THEN a ELSE b

\* line 17; the percentage is kept as its integer part, which compares with
\* the integer thresholds 50, 80 and 100 as the fraction does
usagePercentage(usageCount, maxFilesAllowed) ==
  IF maxFilesAllowed > 0
    THEN Min((usageCount * 100) \div maxFilesAllowed, 100)
    ELSE 0

\* lines 20-24
getProgressBarColor(percentage) ==
  IF percentage < 50 THEN "#66bb6a"
  ELSE IF percentage < 80 THEN "#ffa726"
  ELSE "#ef5350"

NoText == [kind |-> "", first |-> <<>>, second |-> <<>>]

HeaderTextMutErrorFirst(p) ==
  IF TruthyString(p.usageError)
    THEN [kind |-> "Error: ", first |-> p.usageError, second |-> <<>>]
  ELSE IF TruthyBool(p.loadingUsage)
    THEN [kind |-> "Checking usage...", first |-> <<>>, second |-> <<>>]
  ELSE [kind |-> "Used: ",
        first |-> formatNumber(p.usageCount, p.locale),
        second |-> formatNumber(p.maxFilesAllowed, p.locale)]

\* lines 51-55
HeaderText(p) ==
  IF TruthyBool(p.loadingUsage)
    THEN [kind |-> "Checking usage...", first |-> <<>>, second |-> <<>>]
  ELSE IF TruthyString(p.usageError)
    THEN [kind |-> "Error: ", first |-> p.usageError, second |-> <<>>]
  ELSE [kind |-> "Used: ",
        first |-> formatNumber(p.usageCount, p.locale),
        second |-> formatNumber(p.maxFilesAllowed, p.locale)]

NoProgressBar == [shown |-> FALSE, value |-> 0, color |-> ""]

\* lines 58-75
HeaderProgressBar(p) ==
  IF ~TruthyString(p.usageError) /\ ~TruthyBool(p.loadingUsage)
    THEN LET percentage == usagePercentage(p.usageCount, p.maxFilesAllowed)
         IN  [shown |-> TRUE, value |-> percentage,
              color |-> getProgressBarColor(percentage)]
    ELSE NoProgressBar

NotRendered == [rendered |-> FALSE, text |-> NoText, progressBar |-> NoProgressBar]

HeaderPropsSet ==
  [usageCount : UsageValues, maxFilesAllowed : UsageValues,
   usageError : UsageErrors, loadingUsage : LoadingValues,
   locale : GroupSeparators]

HeaderIdle ==
  /\ headerProps = [usageCount |-> 0, maxFilesAllowed |-> 0,
                    usageError |-> Undefined, loadingUsage |-> Undefined,
                    locale |-> ","]
  /\ headerView = NotRendered

HeaderInit ==
  /\ headerProps \in HeaderPropsSet
  /\ headerView = NotRendered

\* lines 15-125: one render of the component
RenderHeader ==
  /\ ~headerView.rendered
  /\ headerView' = [rendered |-> TRUE,
                    text |-> HeaderText(headerProps),
                    progressBar |-> HeaderProgressBar(headerProps)]
  /\ UNCHANGED headerProps
  /\ UNCHANGED notHeaderVars

(***************************************************************************)
(* The deploy scripts: part_000 (one CodeBuild project), deploy.sh (two    *)
(* stages, the frontend configured from CDK outputs) and part_002 (two     *)
(* stages, the result passed through SSM parameters).  All three run under *)
(* `set -euo pipefail`: a failing simple command ends the script with the  *)
(* status of that command, and the expansion of an unset variable ends it  *)
(* with status 1.                                                          *)
(***************************************************************************)
Scripts == {"part_000", "deploy.sh", "part_002"}

TwoStageScripts == {"deploy.sh", "part_002"}

BucketAnswers == {"", "my-bucket"}

EndOfInput == "<eof>"

\* exit statuses of a failing aws command
AwsErrorStatuses == {254, 255}

AwsResults == {0} \cup AwsErrorStatuses

BuildStatuses == {"IN_PROGRESS", "SUCCEEDED", "FAILED", "STOPPED"}

Unset == "<unset>"

CdkOutputVars ==
  <<"AMPLIFY_APP_URL", "USER_POOL_ID", "USER_POOL_CLIENT_ID",
    "USER_POOL_DOMAIN", "IDENTITY_POOL_ID", "UPDATE_FIRST_SIGN_IN_ENDPOINT",
    "CHECK_UPLOAD_QUOTA_ENDPOINT">>

CdkOutputVarNames == {CdkOutputVars[i] : i \in 1..Len(CdkOutputVars)}

\* the environment the script is started in
ShellEnvs ==
  { [v \in CdkOutputVarNames |-> Unset],
    [v \in CdkOutputVarNames |-> "value"],
    [v \in CdkOutputVarNames |->
       IF v = "USER_POOL_DOMAIN" THEN "null"
       ELSE IF v = "IDENTITY_POOL_ID" THEN ""
       ELSE "value"],
    [v \in CdkOutputVarNames |->
       IF v = "AMPLIFY_APP_URL" THEN "value" ELSE Unset] }

\* a printed line: its text and the stage it is about
Message(text, stage) == <<text, stage>>

BucketRequiredMessage ==
  Message("Error: At least one bucket name is required (PDF_TO_PDF_BUCKET or PDF_TO_HTML_BUCKET)", "")

DeploymentCompleteMessage == Message("Two-Stage Deployment Complete!", "")

BuildFailedMessage(stage) == Message("build failed with status", stage)

CreateFailedMessage(stage) ==
  Message("Failed to create CodeBuild project", stage)

StartFailedMessage(stage) == Message("Failed to start the build", stage)

AwsCall(command, stage) == <<command, stage>>

StagesOf(s) == IF s \in TwoStageScripts THEN {"backend", "frontend"} ELSE {"project"}

BucketsMissingMutEither(pdfName, htmlName) ==
  pdfName = "" \/ htmlName = ""

\* deploy.sh line 22, part_000 line 23, part_002 line 22
BucketsMissing(pdfName, htmlName) ==
  pdfName = "" /\ htmlName = ""

\* deploy.sh lines 149 and 269, part_002 lines 157 and 235
LoopContinues(status) == status = "IN_PROGRESS"

BuildNotSucceededMutOnlyFailed(status) == status = "FAILED"

\* deploy.sh lines 155 and 275, part_002 lines 163 and 241
BuildNotSucceeded(status) == status # "SUCCEEDED"

EnvVar(name, value) == [name |-> name, value |-> value]

\* deploy.sh lines 71-92 and 171-191, part_000 lines 79-100, part_002 71-92
BucketEnvVars(pdfName, htmlName) ==
  (IF pdfName # "" THEN <<EnvVar("PDF_TO_PDF_BUCKET", pdfName)>> ELSE <<>>)
  \o (IF htmlName # "" THEN <<EnvVar("PDF_TO_HTML_BUCKET", htmlName)>>
      ELSE <<>>)

\* deploy.sh lines 194-207
add_frontend_env_var(array, name, value) ==
  IF value # "" /\ value # "null"
    THEN Append(array, EnvVar(name, value))
    ELSE array

\* deploy.sh lines 209-215, for the first n variables
RECURSIVE AddCdkOutputs(_, _, _)
AddCdkOutputs(array, env, n) ==
  IF n = 0 THEN array
  ELSE add_frontend_env_var(AddCdkOutputs(array, env, n - 1),
                            "REACT_APP_" \o CdkOutputVars[n],
                            env[CdkOutputVars[n]])

\* set -u: the expansion of an unset variable is an error
UnboundVariable(env) == \E v \in CdkOutputVarNames : env[v] = Unset

\* the first of the calls at lines 209-215 that expands an unset variable
FirstUnbound(env) ==
  CHOOSE n \in 1..Len(CdkOutputVars) :
    /\ env[CdkOutputVars[n]] = Unset
    /\ \A m \in 1..(n - 1) : env[CdkOutputVars[m]] # Unset

\* the script ends here with the given status, after printing the messages
Exit(status, messages) ==
  /\ exited' = TRUE
  /\ exitStatus' = status
  /\ output' = output \cup messages
  /\ UNCHANGED dpc

Goto(position) ==
  /\ dpc' = position
  /\ UNCHANGED <<exited, exitStatus>>

At(position) == ~exited /\ dpc = position

Pos(step, stage) == step \o "_" \o stage

FirstStage(s) == IF s \in TwoStageScripts THEN "backend" ELSE "project"

DeployIdle ==
  /\ script = "part_000"
  /\ dpc = "prompt_pdf"
  /\ exited = FALSE
  /\ exitStatus = 0
  /\ PDF_TO_PDF_BUCKET = ""
  /\ PDF_TO_HTML_BUCKET = ""
  /\ ENV_VARS_ARRAY = <<>>
  /\ FRONTEND_ENV_VARS_ARRAY = <<>>
  /\ BUILD_STATUS = ""
  /\ shellEnv = [v \in CdkOutputVarNames |-> Unset]
  /\ awsCalls = {}
  /\ output = {}
  /\ backendSeen = ""
  /\ frontendSeen = ""

\* the script is started with some environment
DeployInit ==
  /\ script \in Scripts
  /\ dpc = "prompt_pdf"
  /\ exited = FALSE
  /\ exitStatus = 0
  /\ PDF_TO_PDF_BUCKET \in BucketAnswers
  /\ PDF_TO_HTML_BUCKET \in BucketAnswers
  /\ ENV_VARS_ARRAY = <<>>
  /\ FRONTEND_ENV_VARS_ARRAY = <<>>
  /\ BUILD_STATUS = ""
  /\ shellEnv \in ShellEnvs
  /\ awsCalls = {}
  /\ output = {}
  /\ backendSeen = ""
  /\ frontendSeen = ""

\* deploy.sh lines 13-15, part_000 14-16, part_002 13-15; read fails at the
\* end of the input
PromptPdfBucket(answer) ==
  /\ At("prompt_pdf")
  /\ IF PDF_TO_PDF_BUCKET # ""
       THEN /\ Goto("prompt_html")
            /\ UNCHANGED <<PDF_TO_PDF_BUCKET, output>>
       ELSE IF answer = EndOfInput
         THEN /\ Exit(1, {})
              /\ UNCHANGED PDF_TO_PDF_BUCKET
         ELSE /\ PDF_TO_PDF_BUCKET' = answer
              /\ Goto("prompt_html")
              /\ UNCHANGED output
  /\ UNCHANGED <<script, PDF_TO_HTML_BUCKET, ENV_VARS_ARRAY,
                 FRONTEND_ENV_VARS_ARRAY, BUILD_STATUS, shellEnv, awsCalls,
                 backendSeen, frontendSeen>>
  /\ UNCHANGED notDeployVars

\* deploy.sh lines 17-19, part_000 18-20, part_002 17-19
PromptHtmlBucket(answer) ==
  /\ At("prompt_html")
  /\ IF PDF_TO_HTML_BUCKET # ""
       THEN /\ Goto("validate")
            /\ UNCHANGED <<PDF_TO_HTML_BUCKET, output>>
       ELSE IF answer = EndOfInput
         THEN /\ Exit(1, {})
              /\ UNCHANGED PDF_TO_HTML_BUCKET
         ELSE /\ PDF_TO_HTML_BUCKET' = answer
              /\ Goto("validate")
              /\ UNCHANGED output
  /\ UNCHANGED <<script, PDF_TO_PDF_BUCKET, ENV_VARS_ARRAY,
                 FRONTEND_ENV_VARS_ARRAY, BUILD_STATUS, shellEnv, awsCalls,
                 backendSeen, frontendSeen>>
  /\ UNCHANGED notDeployVars

\* deploy.sh lines 22-25, part_000 23-26, part_002 22-25
ValidateBuckets ==
  /\ At("validate")
  /\ IF BucketsMissing(PDF_TO_PDF_BUCKET, PDF_TO_HTML_BUCKET)
       THEN Exit(1, {BucketRequiredMessage})
       ELSE Goto("iam_get_role") /\ UNCHANGED output
  /\ UNCHANGED <<script, PDF_TO_PDF_BUCKET, PDF_TO_HTML_BUCKET,
                 ENV_VARS_ARRAY, FRONTEND_ENV_VARS_ARRAY, BUILD_STATUS,
                 shellEnv, awsCalls, backendSeen, frontendSeen>>
  /\ UNCHANGED notDeployVars

\* deploy.sh line 34, part_000 38, part_002 34: the condition of an if does
\* not end the script when it fails
IamGetRole(result) ==
  /\ At("iam_get_role")
  /\ awsCalls' = awsCalls \cup {AwsCall("iam get-role", "")}
  /\ Goto(IF result = 0 THEN "iam_role_arn" ELSE "iam_create_role")
  /\ UNCHANGED <<script, PDF_TO_PDF_BUCKET, PDF_TO_HTML_BUCKET,
                 ENV_VARS_ARRAY, FRONTEND_ENV_VARS_ARRAY, BUILD_STATUS,
                 shellEnv, output, backendSeen, frontendSeen>>
  /\ UNCHANGED notDeployVars

\* one aws command of the IAM step, which ends the script when it fails
IamCommand(position, command, next, result) ==
  /\ At(position)
  /\ awsCalls' = awsCalls \cup {AwsCall(command, "")}
  /\ IF result = 0
       THEN Goto(next) /\ UNCHANGED output
       ELSE Exit(result, {})
  /\ UNCHANGED <<script, PDF_TO_PDF_BUCKET, PDF_TO_HTML_BUCKET,
                 ENV_VARS_ARRAY, FRONTEND_ENV_VARS_ARRAY, BUILD_STATUS,
                 shellEnv, backendSeen, frontendSeen>>
  /\ UNCHANGED notDeployVars

\* deploy.sh line 36, part_000 40, part_002 36
IamRoleArn(result) ==
  IamCommand("iam_role_arn", "iam get-role",
             Pos("create", FirstStage(script)), result)

\* deploy.sh lines 48-51, part_000 52-55, part_002 48-51
IamCreateRole(result) ==
  IamCommand("iam_create_role", "iam create-role", "iam_attach_policy", result)

\* deploy.sh lines 54-60, part_000 58-65, part_002 54-60
IamAttachRolePolicy(result) ==
  IamCommand("iam_attach_policy", "iam attach-role-policy",
             Pos("create", FirstStage(script)), result)

\* part_002 lines 94-102 and 179-183: the timestamp is passed to both builds
TimestampEnvVar == EnvVar("PROJECT_TIMESTAMP", "timestamp")

\* deploy.sh lines 67-125 and 231-245, part_000 72-134, part_002 67-134 and
\* 199-212.  The command ends the script when it fails (set -e), so the test
\* of $? that follows it sees 0.
CreateProject(stage, result) ==
  /\ stage \in StagesOf(script)
  /\ At(Pos("create", stage))
  /\ IF stage = "frontend"
       THEN UNCHANGED ENV_VARS_ARRAY
       ELSE ENV_VARS_ARRAY' =
              BucketEnvVars(PDF_TO_PDF_BUCKET, PDF_TO_HTML_BUCKET)
              \o (IF script = "part_002" THEN <<TimestampEnvVar>> ELSE <<>>)
  /\ awsCalls' = awsCalls \cup {AwsCall("codebuild create-project", stage)}
  /\ IF result # 0
       THEN Exit(result, {})
       ELSE IF result # 0
         THEN Exit(1, {CreateFailedMessage(stage)})
         ELSE Goto(Pos("start", stage)) /\ UNCHANGED output
  /\ UNCHANGED <<script, PDF_TO_PDF_BUCKET, PDF_TO_HTML_BUCKET,
                 FRONTEND_ENV_VARS_ARRAY, BUILD_STATUS, shellEnv, backendSeen,
                 frontendSeen>>
  /\ UNCHANGED notDeployVars

\* deploy.sh lines 131-147 and 251-267, part_000 140-151, part_002 140-155
\* and 218-233
StartBuild(stage, result) ==
  /\ stage \in StagesOf(script)
  /\ At(Pos("start", stage))
  /\ awsCalls' = awsCalls \cup {AwsCall("codebuild start-build", stage)}
  /\ IF result # 0
       THEN Exit(result, {}) /\ UNCHANGED BUILD_STATUS
       ELSE IF result # 0
         THEN Exit(1, {StartFailedMessage(stage)}) /\ UNCHANGED BUILD_STATUS
         ELSE IF stage = "project"
           THEN Goto("summary") /\ UNCHANGED <<output, BUILD_STATUS>>
           ELSE /\ BUILD_STATUS' = "IN_PROGRESS"
                /\ Goto(Pos("wait", stage))
                /\ UNCHANGED output
  /\ UNCHANGED <<script, PDF_TO_PDF_BUCKET, PDF_TO_HTML_BUCKET,
                 ENV_VARS_ARRAY, FRONTEND_ENV_VARS_ARRAY, shellEnv,
                 backendSeen, frontendSeen>>
  /\ UNCHANGED notDeployVars

\* deploy.sh lines 149-153 and 269-273, part_002 157-161 and 235-239: one
\* pass of the loop body followed by the test of the loop
PollBuild(stage, result, status) ==
  /\ stage \in StagesOf(script) \ {"project"}
  /\ At(Pos("wait", stage))
  /\ awsCalls' = awsCalls \cup {AwsCall("codebuild batch-get-builds", stage)}
  /\ IF result # 0
       THEN /\ Exit(result, {})
            /\ UNCHANGED <<BUILD_STATUS, backendSeen, frontendSeen>>
       ELSE /\ BUILD_STATUS' = status
            /\ backendSeen' = IF stage = "backend" THEN status ELSE backendSeen
            /\ frontendSeen' =
                 IF stage = "frontend" THEN status ELSE frontendSeen
            /\ Goto(IF LoopContinues(status) THEN Pos("wait", stage)
                    ELSE Pos("check", stage))
            /\ UNCHANGED output
  /\ UNCHANGED <<script, PDF_TO_PDF_BUCKET, PDF_TO_HTML_BUCKET,
                 ENV_VARS_ARRAY, FRONTEND_ENV_VARS_ARRAY, shellEnv>>
  /\ UNCHANGED notDeployVars

\* deploy.sh lines 155-161 and 275-281, part_002 163-169 and 241-247
CheckBuild(stage) ==
  /\ stage \in StagesOf(script) \ {"project"}
  /\ At(Pos("check", stage))
  /\ IF BuildNotSucceeded(BUILD_STATUS)
       THEN Exit(1, {BuildFailedMessage(stage)})
       ELSE /\ Goto(IF stage = "backend" THEN "frontend_env" ELSE "outputs")
            /\ UNCHANGED output
  /\ UNCHANGED <<script, PDF_TO_PDF_BUCKET, PDF_TO_HTML_BUCKET,
                 ENV_VARS_ARRAY, FRONTEND_ENV_VARS_ARRAY, BUILD_STATUS,
                 shellEnv, awsCalls, backendSeen, frontendSeen>>
  /\ UNCHANGED notDeployVars

\* deploy.sh lines 167-222 (the CDK output variables are expanded at lines
\* 209-215 and assigned only at lines 314-323), part_002 lines 175-191
FrontendEnvironment ==
  /\ script \in TwoStageScripts
  /\ At("frontend_env")
  /\ IF script = "part_002"
       THEN /\ FRONTEND_ENV_VARS_ARRAY' = <<TimestampEnvVar>>
            /\ Goto("create_frontend")
            /\ UNCHANGED output
       ELSE IF UnboundVariable(shellEnv)
         THEN /\ Exit(1, {})
              /\ FRONTEND_ENV_VARS_ARRAY' =
                   AddCdkOutputs(
                     BucketEnvVars(PDF_TO_PDF_BUCKET, PDF_TO_HTML_BUCKET),
                     shellEnv, FirstUnbound(shellEnv) - 1)
         ELSE /\ FRONTEND_ENV_VARS_ARRAY' =
                   AddCdkOutputs(
                     BucketEnvVars(PDF_TO_PDF_BUCKET, PDF_TO_HTML_BUCKET),
                     shellEnv, Len(CdkOutputVars))
              /\ Goto("create_frontend")
              /\ UNCHANGED output
  /\ UNCHANGED <<script, PDF_TO_PDF_BUCKET, PDF_TO_HTML_BUCKET,
                 ENV_VARS_ARRAY, BUILD_STATUS, shellEnv, awsCalls,
                 backendSeen, frontendSeen>>
  /\ UNCHANGED notDeployVars

CdkOutputsResults == {"", "null", "outputs without AmplifyAppId", "outputs"}

\* deploy.sh lines 287-336: describe-stacks ends the script when it fails;
\* an empty or null answer is reported after listing the stacks
RetrieveCdkOutputs(result, outputs, listResult) ==
  /\ script = "deploy.sh"
  /\ At("outputs")
  /\ IF result # 0
       THEN /\ awsCalls' =
                 awsCalls \cup {AwsCall("cloudformation describe-stacks", "")}
            /\ Exit(result, {})
            /\ UNCHANGED shellEnv
       ELSE IF outputs \in {"", "null"}
         THEN /\ awsCalls' =
                   awsCalls \cup {AwsCall("cloudformation describe-stacks", ""),
                                  AwsCall("cloudformation list-stacks", "")}
              /\ Exit(IF listResult # 0 THEN listResult ELSE 1,
                      {Message("Error: Could not retrieve CDK stack outputs", "")})
              /\ UNCHANGED shellEnv
         ELSE /\ awsCalls' =
                   awsCalls \cup {AwsCall("cloudformation describe-stacks", "")}
              /\ shellEnv' = [v \in CdkOutputVarNames |-> "value"]
              /\ IF outputs = "outputs without AmplifyAppId"
                   THEN Exit(1, {Message("Error: Could not find AmplifyAppId in CDK stack outputs", "")})
                   ELSE Goto("summary") /\ UNCHANGED output
  /\ UNCHANGED <<script, PDF_TO_PDF_BUCKET, PDF_TO_HTML_BUCKET,
                 ENV_VARS_ARRAY, FRONTEND_ENV_VARS_ARRAY, BUILD_STATUS,
                 backendSeen, frontendSeen>>
  /\ UNCHANGED notDeployVars

\* part_002 lines 255-271: the two parameters are read, then deleted; a
\* failing delete is ignored (|| true)
RetrieveSsmParameters(first, second) ==
  /\ script = "part_002"
  /\ At("outputs")
  /\ IF first # 0
       THEN /\ awsCalls' = awsCalls \cup {AwsCall("ssm get-parameter", "")}
            /\ Exit(first, {})
       ELSE IF second # 0
         THEN /\ awsCalls' = awsCalls \cup {AwsCall("ssm get-parameter", "")}
              /\ Exit(second, {})
         ELSE /\ awsCalls' =
                   awsCalls \cup {AwsCall("ssm get-parameter", ""),
                                  AwsCall("ssm delete-parameter", "")}
              /\ Goto("summary")
              /\ UNCHANGED output
  /\ UNCHANGED <<script, PDF_TO_PDF_BUCKET, PDF_TO_HTML_BUCKET,
                 ENV_VARS_ARRAY, FRONTEND_ENV_VARS_ARRAY, BUILD_STATUS,
                 shellEnv, backendSeen, frontendSeen>>
  /\ UNCHANGED notDeployVars

\* deploy.sh lines 342-364, part_000 157-163, part_002 277-289
Summary(result) ==
  /\ At("summary")
  /\ awsCalls' = awsCalls \cup {AwsCall("codebuild list-projects", "")}
  /\ Exit(result,
          IF script \in TwoStageScripts THEN {DeploymentCompleteMessage}
          ELSE {})
  /\ UNCHANGED <<script, PDF_TO_PDF_BUCKET, PDF_TO_HTML_BUCKET,
                 ENV_VARS_ARRAY, FRONTEND_ENV_VARS_ARRAY, BUILD_STATUS,
                 shellEnv, backendSeen, frontendSeen>>
  /\ UNCHANGED notDeployVars

DeployNext ==
  \/ \E answer \in BucketAnswers \cup {EndOfInput} : PromptPdfBucket(answer)
  \/ \E answer \in BucketAnswers \cup {EndOfInput} : PromptHtmlBucket(answer)
  \/ ValidateBuckets
  \/ \E result \in AwsResults : IamGetRole(result)
  \/ \E result \in AwsResults : IamRoleArn(result)
  \/ \E result \in AwsResults : IamCreateRole(result)
  \/ \E result \in AwsResults : IamAttachRolePolicy(result)
  \/ \E stage \in {"project", "backend", "frontend"}, result \in AwsResults :
       CreateProject(stage, result)
  \/ \E stage \in {"project", "backend", "frontend"}, result \in AwsResults :
       StartBuild(stage, result)
  \/ \E stage \in {"backend", "frontend"}, result \in AwsResults,
        status \in BuildStatuses : PollBuild(stage, result, status)
  \/ \E stage \in {"backend", "frontend"} : CheckBuild(stage)
  \/ FrontendEnvironment
  \/ \E result \in AwsResults, outputs \in CdkOutputsResults,
        listResult \in AwsResults :
       RetrieveCdkOutputs(result, outputs, listResult)
  \/ \E first \in AwsResults, second \in AwsResults :
       RetrieveSsmParameters(first, second)
  \/ \E result \in AwsResults : Summary(result)

(***************************************************************************)
(* CdkBackendStack (part_001): the constructor, as far as the two bucket   *)
(* context values reach: the validation, the import of the buckets, the    *)
(* choice of the main bucket, the S3 resources of the policy and the       *)
(* environment of the Amplify branch.                                      *)
(***************************************************************************)
ContextValues == {Undefined, "", "bucket-a", "bucket-b"}

BucketRequiredError ==
  "At least one bucket name is required! Pass using -c PDF_TO_PDF_BUCKET=<name> or -c PDF_TO_HTML_BUCKET=<name>"

\* JavaScript a || b on strings
OrElse(value, default) == IF TruthyString(value) THEN value ELSE default

\* the ARN of an imported bucket
BucketArn(name) == "arn:aws:s3:::" \o name

NoBucketNames ==
  [PDF_TO_PDF_BUCKET |-> Undefined, PDF_TO_HTML_BUCKET |-> Undefined]

CdkIdle ==
  /\ context = NoBucketNames
  /\ cdkStep = "new"
  /\ bucketNames = NoBucketNames
  /\ thrown = ""
  /\ pdfBucket = Undefined
  /\ htmlBucket = Undefined
  /\ mainBucket = Undefined
  /\ s3Resources = <<>>
  /\ branchEnvironment = {}

\* cdk deploy with some -c options
CdkInit ==
  /\ context \in [PDF_TO_PDF_BUCKET : ContextValues,
                  PDF_TO_HTML_BUCKET : ContextValues]
  /\ cdkStep = "new"
  /\ bucketNames = NoBucketNames
  /\ thrown = ""
  /\ pdfBucket = Undefined
  /\ htmlBucket = Undefined
  /\ mainBucket = Undefined
  /\ s3Resources = <<>>
  /\ branchEnvironment = {}

\* part_001 lines 19-20
ReadContext ==
  /\ cdkStep = "new"
  /\ bucketNames' =
       [PDF_TO_PDF_BUCKET |-> OrElse(context.PDF_TO_PDF_BUCKET, "Null"),
        PDF_TO_HTML_BUCKET |-> OrElse(context.PDF_TO_HTML_BUCKET, "Null")]
  /\ cdkStep' = "validate"
  /\ UNCHANGED <<context, thrown, pdfBucket, htmlBucket, mainBucket,
                 s3Resources, branchEnvironment>>
  /\ UNCHANGED notCdkVars

\* part_001 lines 23-27
ValidateBucketNames ==
  /\ cdkStep = "validate"
  /\ IF /\ ~TruthyString(bucketNames.PDF_TO_PDF_BUCKET)
        /\ ~TruthyString(bucketNames.PDF_TO_HTML_BUCKET)
       THEN thrown' = BucketRequiredError /\ cdkStep' = "thrown"
       ELSE thrown' = thrown /\ cdkStep' = "import pdf"
  /\ UNCHANGED <<context, bucketNames, pdfBucket, htmlBucket, mainBucket,
                 s3Resources, branchEnvironment>>
  /\ UNCHANGED notCdkVars

\* part_001 lines 33-36
ImportPdfBucket ==
  /\ cdkStep = "import pdf"
  /\ pdfBucket' = IF TruthyString(bucketNames.PDF_TO_PDF_BUCKET)
                    THEN bucketNames.PDF_TO_PDF_BUCKET
                    ELSE pdfBucket
  /\ cdkStep' = "import html"
  /\ UNCHANGED <<context, bucketNames, thrown, htmlBucket, mainBucket,
                 s3Resources, branchEnvironment>>
  /\ UNCHANGED notCdkVars

\* part_001 lines 38-41
ImportHtmlBucket ==
  /\ cdkStep = "import html"
  /\ htmlBucket' = IF TruthyString(bucketNames.PDF_TO_HTML_BUCKET)
                     THEN bucketNames.PDF_TO_HTML_BUCKET
                     ELSE htmlBucket
  /\ cdkStep' = "main bucket"
  /\ UNCHANGED <<context, bucketNames, thrown, pdfBucket, mainBucket,
                 s3Resources, branchEnvironment>>
  /\ UNCHANGED notCdkVars

\* part_001 lines 44-45
ChooseMainBucket ==
  /\ cdkStep = "main bucket"
  /\ mainBucket' = OrElse(pdfBucket, htmlBucket)
  /\ cdkStep' = "policy"
  /\ UNCHANGED <<context, bucketNames, thrown, pdfBucket, htmlBucket,
                 s3Resources, branchEnvironment>>
  /\ UNCHANGED notCdkVars

\* part_001 lines 255-261
CollectS3Resources ==
  /\ cdkStep = "policy"
  /\ s3Resources' =
       (IF TruthyString(pdfBucket) THEN <<BucketArn(pdfBucket) \o "/*">> ELSE <<>>)
       \o (IF TruthyString(htmlBucket) THEN <<BucketArn(htmlBucket) \o "/*">> ELSE <<>>)
  /\ cdkStep' = "branch environment"
  /\ UNCHANGED <<context, bucketNames, thrown, pdfBucket, htmlBucket,
                 mainBucket, branchEnvironment>>
  /\ UNCHANGED notCdkVars

\* part_001 lines 358-368
AddBranchEnvironment ==
  /\ cdkStep = "branch environment"
  /\ branchEnvironment' =
       {EnvVar("REACT_APP_BUCKET_NAME", mainBucket)}
       \cup (IF TruthyString(bucketNames.PDF_TO_PDF_BUCKET)
               THEN {EnvVar("REACT_APP_PDF_BUCKET_NAME",
                            bucketNames.PDF_TO_PDF_BUCKET)}
               ELSE {})
       \cup (IF TruthyString(bucketNames.PDF_TO_HTML_BUCKET)
               THEN {EnvVar("REACT_APP_HTML_BUCKET_NAME",
                            bucketNames.PDF_TO_HTML_BUCKET)}
               ELSE {})
  /\ cdkStep' = "constructed"
  /\ UNCHANGED <<context, bucketNames, thrown, pdfBucket, htmlBucket,
                 mainBucket, s3Resources>>
  /\ UNCHANGED notCdkVars

CdkNext ==
  \/ ReadContext
  \/ ValidateBucketNames
  \/ ImportPdfBucket
  \/ ImportHtmlBucket
  \/ ChooseMainBucket
  \/ CollectS3Resources
  \/ AddBranchEnvironment

(***************************************************************************)
(* AccessibilityChecker (Header.jsx lines 471-638): fetchBeforeReport and  *)
(* fetchAfterReport.  One invocation of each runs; they interleave at      *)
(* their awaits.  An attempt awaits HeadObject, GetObject, the body (which *)
(* is then parsed) and the signing of the URL.                             *)
(***************************************************************************)
Reports == {"before", "after"}

AwaitStages == <<"head", "get", "body", "presign">>

AwaitStageNames == {AwaitStages[i] : i \in 1..Len(AwaitStages)}

\* line 561 and 598: retries = 3
DefaultRetries == 3

\* the argument of an invocation: not given, or a number
RetriesArguments ==
  {[given |-> FALSE, value |-> 0]}
  \cup {[given |-> TRUE, value |-> n] : n \in 0..MaxRetries}

NotInvoked ==
  [step |-> "idle", attempt |-> 0, retries |-> 0, report |-> "null",
   reportUrl |-> "null", isUrlLoading |-> FALSE, attempts |-> 0,
   failures |-> 0, sleeps |-> 0, threw |-> FALSE]

CheckerIdle ==
  /\ s3 = FALSE
  /\ fetch = [r \in Reports |-> NotInvoked]

CheckerInit ==
  /\ s3 \in BOOLEAN
  /\ fetch = [r \in Reports |-> NotInvoked]

\* lines 563 and 600: the condition of the for loop
LoopCondition(attempt, retries) == attempt <= retries

SleepsAfterFailureMutAlways(attempt, retries) == attempt <= retries

\* lines 579 and 616
SleepsAfterFailure(attempt, retries) == attempt < retries

\* lines 564-574 and 601-611: the awaits inside the try block
FetchCatches(stage) == stage \in AwaitStageNames

\* the body of the for loop is entered with this value of attempt, or the
\* loop and with it the function ends
EnterLoop(f, attempt) ==
  IF LoopCondition(attempt, f.retries)
    THEN [f EXCEPT !.step = "head", !.attempt = attempt,
                   !.attempts = f.attempts + 1]
    ELSE [f EXCEPT !.step = "done", !.attempt = attempt]

\* lines 560-563 and 597-600
FetchReport(r, argument) ==
  /\ fetch[r].step = "idle"
  /\ fetch' =
       [fetch EXCEPT ![r] =
          IF ~s3
            THEN [@ EXCEPT !.step = "done"]
            ELSE EnterLoop(
                   [@ EXCEPT !.retries = IF argument.given THEN argument.value
                                         ELSE DefaultRetries],
                   1)]
  /\ UNCHANGED s3
  /\ UNCHANGED notCheckerVars

\* lines 520-535, 540-555, 564-582 and 601-619: the awaited promise of the
\* current stage is settled
AwaitSettles(r, fulfilled) ==
  LET f == fetch[r]
      stage == f.step
  IN
  /\ stage \in AwaitStageNames
  /\ fetch' =
       [fetch EXCEPT ![r] =
          IF fulfilled
            THEN IF stage = "head" THEN [f EXCEPT !.step = "get"]
                 ELSE IF stage = "get" THEN [f EXCEPT !.step = "body"]
                 ELSE IF stage = "body"
                   THEN [f EXCEPT !.step = "presign", !.report = "json",
                                  !.isUrlLoading = TRUE]
                 ELSE [f EXCEPT !.step = "done", !.reportUrl = "url",
                                !.isUrlLoading = FALSE]
          ELSE IF ~FetchCatches(stage)
            THEN [f EXCEPT !.step = "done", !.threw = TRUE]
          ELSE IF SleepsAfterFailure(f.attempt, f.retries)
            THEN [f EXCEPT !.step = "sleep", !.failures = f.failures + 1,
                           !.sleeps = f.sleeps + 1]
          ELSE EnterLoop([f EXCEPT !.isUrlLoading = FALSE,
                                   !.failures = f.failures + 1],
                         f.attempt + 1)]
  /\ UNCHANGED s3
  /\ UNCHANGED notCheckerVars

\* lines 579-582 and 616-619: the 2 s timer fires, the finally block runs
\* and the loop goes on
SleepEnds(r) ==
  /\ fetch[r].step = "sleep"
  /\ fetch' =
       [fetch EXCEPT ![r] =
          EnterLoop([@ EXCEPT !.isUrlLoading = FALSE], fetch[r].attempt + 1)]
  /\ UNCHANGED s3
  /\ UNCHANGED notCheckerVars

CheckerNext ==
  \/ \E r \in Reports, argument \in RetriesArguments : FetchReport(r, argument)
  \/ \E r \in Reports, fulfilled \in BOOLEAN : AwaitSettles(r, fulfilled)
  \/ \E r \in Reports : SleepEnds(r)

(***************************************************************************)
(* RemediatedFilesContainer (Header.jsx lines 175-305): the effect that    *)
(* lists the two buckets, presigns every object and sets the files state.  *)
(* Nothing cancels a loadAll call: every call runs to its end.             *)
(***************************************************************************)
Null == "null"

Fetches == {"pdf", "html"}

\* objects under the user's prefix: key and LastModified in seconds, each
\* sequence in the key order ListObjectsV2 answers in
PdfObjects ==
  <<[key |-> "result/COMPLIANT_u_a.pdf", LastModified |-> 30]>>

HtmlObjects == <<[key |-> "output/u_a.zip", LastModified |-> 170]>>

ObjectsOf(which) == IF which = "pdf" THEN PdfObjects ELSE HtmlObjects

ObjectSet(which) ==
  {ObjectsOf(which)[k] : k \in DOMAIN ObjectsOf(which)}

BucketOf(which) == IF which = "pdf" THEN PdfBucketName ELSE HtmlBucketName

\* lines 163-173: the date to the minute
formatDate(seconds) == seconds \div 60

UrlOf(bucket, key) == "https://" \o bucket \o "/" \o key

\* lines 193-219: the URL, or null when getSignedUrl throws
generatePresignedUrl(bucket, key, signed) ==
  IF signed THEN UrlOf(bucket, key) ELSE Null

\* lines 243 and 268: response.Contents of a listing
Contents(which, present) ==
  SelectSeq(ObjectsOf(which), LAMBDA o : o \in present)

\* lines 244-263 and 269-284: one entry per listed object
Entries(which, contents, failing) ==
  [k \in DOMAIN contents |->
     [key |-> contents[k].key,
      date |-> formatDate(contents[k].LastModified),
      download_link |->
        generatePresignedUrl(BucketOf(which), contents[k].key,
                             contents[k].key \notin failing)]]

\* lines 295-297: sort by date, newest first; Array.prototype.sort is stable
RECURSIVE InsertByDate(_, _)
InsertByDate(entry, sorted) ==
  IF sorted = <<>> THEN <<entry>>
  ELSE IF Head(sorted).date <= entry.date THEN <<entry>> \o sorted
  ELSE <<Head(sorted)>> \o InsertByDate(entry, Tail(sorted))

RECURSIVE SortByDate(_)
SortByDate(list) ==
  IF list = <<>> THEN <<>>
  ELSE InsertByDate(Head(list), SortByDate(Tail(list)))

\* lines 291-294: Promise.all over the stages of fetchPDF and fetchHTML
PromiseAllMutAllSettled(a, b) ==
  IF {a, b} \subseteq {"done", "failed"} THEN "fulfilled" ELSE "pending"

PromiseAll(a, b) ==
  IF "failed" \in {a, b} THEN "rejected"
  ELSE IF a = "done" /\ b = "done" THEN "fulfilled"
  ELSE "pending"

\* lines 241-242 and 266-267: a fetch that has sent its ListObjectsV2Command
NewFetch == [stage |-> "list", contents |-> <<>>, result |-> <<>>]

\* line 304: a call of loadAll
NewLoad(id) ==
  [id |-> id, settled |-> FALSE, pdf |-> NewFetch, html |-> NewFetch]

FilesInputs ==
  [awsCredentials : {Undefined, "credentials 1", "credentials 2"},
   user : {Undefined, "u"},
   refreshFlag : {0, 1}]

\* line 305: the dependency array (generatePresignedUrl changes with
\* awsCredentials)
FilesDeps == filesInputs

FilesEffectPending == ~filesEffectRan \/ filesEffectDeps # FilesDeps

FilesIdle ==
  /\ filesInputs =
       [awsCredentials |-> Undefined, user |-> Undefined, refreshFlag |-> 0]
  /\ filesEffectRan = FALSE
  /\ filesEffectDeps = filesInputs
  /\ files = <<>>
  /\ loads = <<>>
  /\ bucketContents = [which \in Fetches |-> {}]
  /\ loadsStarted = 0
  /\ appliedLoad = 0
  /\ newest = [id |-> 0, files |-> <<>>]
  /\ failedLoads = {}
  /\ unsignedLoads = {}
  /\ logged = {}
  /\ inputChanges = 0

\* the component is mounted: line 177, useState([])
FilesInit ==
  /\ filesInputs \in FilesInputs
  /\ filesInputs.refreshFlag = 0
  /\ filesInputs.awsCredentials # "credentials 2"
  /\ filesEffectRan = FALSE
  /\ filesEffectDeps = filesInputs
  /\ files = <<>>
  /\ loads = <<>>
  /\ bucketContents \in [Fetches -> {{}}] \cup
                        {[which \in Fetches |-> {ObjectsOf(which)[1]}]}
  /\ loadsStarted = 0
  /\ appliedLoad = 0
  /\ newest = [id |-> 0, files |-> <<>>]
  /\ failedLoads = {}
  /\ unsignedLoads = {}
  /\ logged = {}
  /\ inputChanges = 0

\* the parent renders the component with other credentials, another user or
\* another refreshFlag
FilesInputsChange(new) ==
  /\ ~FilesEffectPending
  /\ new # filesInputs
  /\ inputChanges < MaxInputChanges
  /\ Len(loads) < MaxOverlap
  /\ inputChanges' = inputChanges + 1
  /\ filesInputs' = new
  /\ UNCHANGED <<filesEffectRan, filesEffectDeps, files, loads,
                 bucketContents, loadsStarted, appliedLoad, newest,
                 failedLoads, unsignedLoads, logged>>
  /\ UNCHANGED notFilesVars

\* lines 221-305: the effect; it has no cleanup
FilesEffect ==
  /\ FilesEffectPending
  /\ filesEffectRan' = TRUE
  /\ filesEffectDeps' = FilesDeps
  /\ IF ~TruthyString(filesInputs.awsCredentials)
        \/ ~TruthyString(filesInputs.user)
       THEN UNCHANGED <<loads, loadsStarted>>
       ELSE /\ loads' = Append(loads, NewLoad(loadsStarted + 1))
            /\ loadsStarted' = loadsStarted + 1
  /\ UNCHANGED <<filesInputs, files, bucketContents, appliedLoad, newest,
                 failedLoads, unsignedLoads, logged, inputChanges>>
  /\ UNCHANGED notFilesVars

\* lines 289-302: what loadAll does once a fetch of call i has moved on; l is
\* the call after that step
loadAll(i, l) ==
  LET outcome == IF l.settled THEN "pending"
                 ELSE PromiseAll(l.pdf.stage, l.html.stage)
      finished == {l.pdf.stage, l.html.stage} \subseteq {"done", "failed"}
  IN  /\ loads' =
           IF finished THEN RemoveAt(loads, i)
           ELSE [loads EXCEPT
                   ![i] = [l EXCEPT !.settled = (outcome # "pending")
                                                  \/ l.settled]]
      /\ IF outcome = "fulfilled"
           THEN /\ files' = SortByDate(l.pdf.result \o l.html.result)
                /\ appliedLoad' = l.id
                /\ newest' = IF l.id > newest.id
                                THEN [id |-> l.id, files |-> files']
                                ELSE newest
                /\ UNCHANGED logged
           ELSE IF outcome = "rejected"
             THEN /\ logged' = logged \cup {l.id}
                  /\ UNCHANGED <<files, appliedLoad, newest>>
             ELSE UNCHANGED <<files, appliedLoad, newest, logged>>

\* lines 242-243 and 267-268: the listing of one bucket is answered
ListObjectsSettles(i, which, fulfilled) ==
  /\ ~FilesEffectPending
  /\ i \in DOMAIN loads
  /\ loads[i][which].stage = "list"
  /\ LET contents == Contents(which, bucketContents[which])
         fetched ==
           IF ~fulfilled THEN [NewFetch EXCEPT !.stage = "failed"]
           ELSE IF contents = <<>> THEN [NewFetch EXCEPT !.stage = "done"]
           ELSE [NewFetch EXCEPT !.stage = "presign", !.contents = contents]
     IN  /\ loadAll(i, [loads[i] EXCEPT ![which] = fetched])
         /\ failedLoads' =
              IF fulfilled THEN failedLoads
              ELSE failedLoads \cup {loads[i].id}
  /\ UNCHANGED <<filesInputs, filesEffectRan, filesEffectDeps,
                 bucketContents, loadsStarted, unsignedLoads, inputChanges>>
  /\ UNCHANGED notFilesVars

\* lines 244-263 and 269-284: every generatePresignedUrl call of one fetch
\* has returned; failing holds the keys whose signing threw
PresignsSettle(i, which, failing) ==
  /\ ~FilesEffectPending
  /\ i \in DOMAIN loads
  /\ loads[i][which].stage = "presign"
  /\ LET contents == loads[i][which].contents
         keys == {contents[k].key : k \in DOMAIN contents}
         fetched == [stage |-> "done", contents |-> contents,
                     result |-> Entries(which, contents, failing)]
     IN  /\ failing \subseteq keys
         /\ loadAll(i, [loads[i] EXCEPT ![which] = fetched])
         /\ unsignedLoads' =
              IF failing = {} THEN unsignedLoads
              ELSE unsignedLoads \cup {loads[i].id}
  /\ UNCHANGED <<filesInputs, filesEffectRan, filesEffectDeps,
                 bucketContents, loadsStarted, failedLoads, inputChanges>>
  /\ UNCHANGED notFilesVars

\* the backend writes a remediated file of the user
FilesBackendWrites(which, object) ==
  /\ object \in ObjectSet(which)
  /\ object \notin bucketContents[which]
  /\ bucketContents' =
       [bucketContents EXCEPT ![which] = @ \cup {object}]
  /\ UNCHANGED <<filesInputs, filesEffectRan, filesEffectDeps, files, loads,
                 loadsStarted, appliedLoad, newest, failedLoads,
                 unsignedLoads, logged, inputChanges>>
  /\ UNCHANGED notFilesVars

AllKeys ==
  UNION {{o.key : o \in ObjectSet(which)} : which \in Fetches}

FilesNext ==
  \/ \E new \in FilesInputs : FilesInputsChange(new)
  \/ FilesEffect
  \/ \E i \in 1..MaxOverlap, which \in Fetches, fulfilled \in BOOLEAN :
       ListObjectsSettles(i, which, fulfilled)
  \/ \E i \in 1..MaxOverlap, which \in Fetches, failing \in SUBSET AllKeys :
       PresignsSettle(i, which, failing)
  \/ \E which \in Fetches, object \in ObjectSet("pdf") \cup ObjectSet("html") :
       FilesBackendWrites(which, object)

(***************************************************************************)
(* normalizePdfFilename (Header.jsx lines 153-160) on file names built     *)
(* from pieces, and a second call on the result of the first.              *)
(***************************************************************************)
\* a missing argument (undefined or null), apart from every string
Missing == <<Undefined>>

CompliantPrefix == <<"C", "O", "M", "P", "L", "I", "A", "N", "T", "_">>

SevenDigitStamp == <<"_", "1", "2", "3", "4", "5", "6", "7", "_">>

EightDigitStamp == <<"_", "1", "2", "3", "4", "5", "6", "7", "8", "_">>

Percent20 == <<"%", "2", "0">>

NamePieces ==
  {CompliantPrefix, SevenDigitStamp, EightDigitStamp, Percent20,
   <<"u">>, <<"_">>, <<".">>, <<" ">>}

RECURSIVE SanitizedNames(_)
SanitizedNames(n) ==
  IF n = 0 THEN {<<>>}
  ELSE LET shorter == SanitizedNames(n - 1)
       IN  shorter \cup {x \o piece : x \in shorter, piece \in NamePieces}

Letters ==
  {"A", "B", "C", "D", "E", "F", "G", "H", "I", "J", "K", "L", "M", "N", "O",
   "P", "Q", "R", "S", "T", "U", "V", "W", "X", "Y", "Z", "a", "b", "c", "d",
   "e", "f", "g", "h", "i", "j", "k", "l", "m", "n", "o", "p", "q", "r", "s",
   "t", "u", "v", "w", "x", "y", "z"}

DigitSet == {DigitChars[d] : d \in DOMAIN DigitChars}

\* line 156: the class [A-Za-z0-9_]
WordChars == Letters \cup DigitSet \cup {"_"}

\* line 156: the positions at which a match of ^[A-Za-z0-9_]+_\d{8,}_ can
\* end: p characters of the class, '_', at least 8 digits, '_'
PrefixMatchEnds(name) ==
  {k \in 1..Len(name) :
     \E p \in 1..k :
       /\ \A i \in 1..p : name[i] \in WordChars
       /\ p + 1 < k
       /\ name[p + 1] = "_"
       /\ \A i \in (p + 2)..(k - 1) : name[i] \in DigitSet
       /\ (k - 1) - (p + 2) + 1 >= 8
       /\ name[k] = "_"}

Greatest(S) == CHOOSE k \in S : \A j \in S : j <= k

Least(S) == CHOOSE k \in S : \A j \in S : k <= j

\* line 156: + is greedy, so the match is the one with the longest first
\* part, which is the one that ends last
RemoveUserPrefix(name) ==
  IF PrefixMatchEnds(name) = {} THEN name
  ELSE SubSeq(name, Greatest(PrefixMatchEnds(name)) + 1, Len(name))

\* line 155: replace(/^COMPLIANT_/, "")
RemoveCompliant(name) ==
  IF StartsWith(name, CompliantPrefix)
    THEN SubSeq(name, Len(CompliantPrefix) + 1, Len(name))
    ELSE name

\* line 158: String.prototype.trim
RECURSIVE TrimStart(_)
TrimStart(name) ==
  IF name # <<>> /\ Head(name) \in Whitespace THEN TrimStart(Tail(name))
  ELSE name

RECURSIVE TrimEnd(_)
TrimEnd(name) ==
  IF name # <<>> /\ name[Len(name)] \in Whitespace
    THEN TrimEnd(SubSeq(name, 1, Len(name) - 1))
    ELSE name

Trim(name) == TrimEnd(TrimStart(name))

\* lines 153-160
normalizePdfFilename(name) ==
  IF name = Missing \/ name = <<>> THEN name
  ELSE Trim(ReplaceEvery(
              ReplaceEvery(RemoveUserPrefix(RemoveCompliant(name)),
                           <<"_">>, <<" ">>),
              Percent20, <<" ">>))

NormalizeIdle ==
  /\ sanitized = <<>>
  /\ readable = <<>>
  /\ readableAgain = <<>>
  /\ normalizeCalls = 0

NormalizeInit ==
  /\ sanitized \in SanitizedNames(MaxNameParts) \cup {Missing}
  /\ readable = <<>>
  /\ readableAgain = <<>>
  /\ normalizeCalls = 0

\* lines 247 and 273: the call on the file name of a listed object
NormalizeName ==
  /\ normalizeCalls = 0
  /\ normalizeCalls' = 1
  /\ readable' = normalizePdfFilename(sanitized)
  /\ UNCHANGED <<sanitized, readableAgain>>
  /\ UNCHANGED notNormalizeVars

\* a call on the name the first call returned
NormalizeAgain ==
  /\ normalizeCalls = 1
  /\ normalizeCalls' = 2
  /\ readableAgain' = normalizePdfFilename(readable)
  /\ UNCHANGED <<sanitized, readable>>
  /\ UNCHANGED notNormalizeVars

NormalizeNext == NormalizeName \/ NormalizeAgain

Init ==
  PcInitWith(0) /\ KeyIdle /\ HeaderIdle /\ DeployIdle /\ CdkIdle /\ CheckerIdle
  /\ FilesIdle /\ NormalizeIdle

Next == PcNext

Spec == Init /\ [][Next]_vars

\* the props drawn from bounded sets; the component itself is not running
SpecKeyInit ==
  PcInitWith(0) /\ KeyInit /\ HeaderIdle /\ DeployIdle /\ CdkIdle /\ CheckerIdle
  /\ FilesIdle /\ NormalizeIdle

SpecKeyNext == ComputeRequest

SpecKey == SpecKeyInit /\ [][SpecKeyNext]_vars

(***************************************************************************)
(* The polling of one file up to the attempt limit: one upload, the result *)
(* never appears, every check is answered before the next tick.            *)
(***************************************************************************)
SpecLongInit ==
  /\ PcInitWith(MAX_POLLING_ATTEMPTS + 1)
  /\ KeyIdle /\ HeaderIdle /\ DeployIdle /\ CdkIdle /\ CheckerIdle
  /\ FilesIdle /\ NormalizeIdle

SpecLongNext ==
  \/ Mount(MkProps(FileA, "pdf", 1, Credentials1))
  \/ EffectFlush
  \/ PollTick
  \/ \E i \in 1..MaxInFlight : HeadResponse(i, FALSE)

SpecLong == SpecLongInit /\ [][SpecLongNext]_vars

(***************************************************************************)
(* Fair scheduling: a pending effect runs, an active poll timer fires, and *)
(* a request that was sent is answered.                                    *)
(***************************************************************************)
SpecLive ==
  /\ Init
  /\ [][Next]_vars
  /\ WF_vars(EffectFlush)
  /\ WF_vars(PollTick)
  /\ WF_vars(\E i \in 1..MaxInFlight, ok \in BOOLEAN : HeadResponse(i, ok))
  /\ WF_vars(\E i \in 1..MaxInFlight, ok \in BOOLEAN : PresignResponse(i, ok))

\* the Header rendered once for props drawn from bounded sets
SpecHeaderInit ==
  PcInitWith(0) /\ KeyIdle /\ HeaderInit /\ DeployIdle /\ CdkIdle /\ CheckerIdle
  /\ FilesIdle /\ NormalizeIdle

SpecHeaderNext == RenderHeader

SpecHeader == SpecHeaderInit /\ [][SpecHeaderNext]_vars

\* one run of one deploy script
SpecDeployInit ==
  PcInitWith(0) /\ KeyIdle /\ HeaderIdle /\ DeployInit /\ CdkIdle /\ CheckerIdle
  /\ FilesIdle /\ NormalizeIdle

SpecDeployNext == DeployNext

SpecDeploy == SpecDeployInit /\ [][SpecDeployNext]_vars

\* one construction of the stack
SpecCdkInit ==
  PcInitWith(0) /\ KeyIdle /\ HeaderIdle /\ DeployIdle /\ CdkInit /\ CheckerIdle
  /\ FilesIdle /\ NormalizeIdle

SpecCdkNext == CdkNext

SpecCdk == SpecCdkInit /\ [][SpecCdkNext]_vars

\* one invocation of each fetch function; a promise that is awaited is
\* settled and a timer that was set fires
SpecCheckerInit ==
  PcInitWith(0) /\ KeyIdle /\ HeaderIdle /\ DeployIdle /\ CdkIdle /\ CheckerInit
  /\ FilesIdle /\ NormalizeIdle

SpecCheckerNext == CheckerNext

SpecChecker ==
  /\ SpecCheckerInit
  /\ [][SpecCheckerNext]_vars
  /\ \A r \in Reports :
       /\ WF_vars(\E fulfilled \in BOOLEAN : AwaitSettles(r, fulfilled))
       /\ WF_vars(SleepEnds(r))

\* the component from its mount on; a request that was sent is answered
SpecFilesInit ==
  PcInitWith(0) /\ KeyIdle /\ HeaderIdle /\ DeployIdle /\ CdkIdle /\ CheckerIdle
  /\ FilesInit /\ NormalizeIdle

SpecFilesNext == FilesNext

SpecFiles == SpecFilesInit /\ [][SpecFilesNext]_vars

\* one file name, normalized and normalized again
SpecNormalizeInit ==
  PcInitWith(0) /\ KeyIdle /\ HeaderIdle /\ DeployIdle /\ CdkIdle /\ CheckerIdle
  /\ FilesIdle /\ NormalizeInit

SpecNormalizeNext == NormalizeNext

SpecNormalize == SpecNormalizeInit /\ [][SpecNormalizeNext]_vars

(***************************************************************************)
(* Claims.                                                                 *)
(***************************************************************************)

\* C1: whenever isFileReady is true, HeadObject has succeeded on the object
\* of downloadUrl, downloadUrl is a URL that getSignedUrl produced for it and
\* onFileReady has been called with that URL.
C1_ReadyOnlyAfterSuccessfulCheck ==
  isFileReady =>
    /\ downloadUrl # NoUrl
    /\ [bucket |-> downloadUrl.bucket, key |-> downloadUrl.key] \in headOk
    /\ downloadUrl \in presigned
    /\ downloadUrl \in notified

C1_Witness ==
  /\ mounted
  /\ isFileReady
  /\ downloadUrl \in notified
  /\ rejected

\* the result of the props in storage, written out for the names of the model
ResultObjectOf(p) ==
  CASE p.selectedFormat = "html" /\ p.updatedFilename = FileA ->
         [bucket |-> HtmlBucketName,
          key |-> <<"remediated/final_", "a", "_", "b", ".", "z", "i", "p">>]
    [] p.selectedFormat = "pdf" /\ p.updatedFilename = FileA ->
         [bucket |-> PdfBucketName,
          key |-> <<"result/COMPLIANT_", "a", " ", "b", ".", "p", "d", "f">>]
    [] OTHER -> [bucket |-> "", key |-> <<>>]

DownloadNameOf(p) ==
  IF p.selectedFormat = "html"
  THEN <<"final_", "a", ".", "z", "i", "p">>
  ELSE <<"COMPLIANT_", "a", ".", "p", "d", "f">>

ResultAvailable ==
  /\ mounted
  /\ props.updatedFilename # <<>>
  /\ SelectedBucket(props.selectedFormat) # Undefined
  /\ props.awsCredentials.accessKeyId # Undefined
  /\ ResultObjectOf(props) \in s3Objects
  /\ s3Healthy

C3_AtMostMaxPollingAttemptsChecks ==
  checksIssued <= MAX_POLLING_ATTEMPTS

\* a step in which an await of check i settles
ResponseStep(i) ==
  \/ inflight' = RemoveAt(inflight, i)
  \/ inflight' = [inflight EXCEPT ![i].stage = "presign"]

\* the await of check i can only be rejected in this state
MustReject(i) ==
  \/ ~s3Healthy
  \/ /\ inflight[i].stage = "head"
     /\ [bucket |-> inflight[i].bucket, key |-> inflight[i].key] \notin s3Objects

RejectionStep ==
  \E i \in DOMAIN inflight :
    /\ inflight' # inflight
    /\ ResponseStep(i)
    /\ MustReject(i)

\* C4: a step in which HeadObject or the presigning is rejected ends that
\* check, leaves isFileReady and downloadUrl as they were, calls onFileReady
\* not at all, lets no exception escape, and leaves the timers running: while
\* the component is mounted for a file that is not ready, the poll timer is
\* still active afterwards.
C4_RejectedCheckChangesNothing ==
  [][RejectionStep =>
       /\ Len(inflight') < Len(inflight)
       /\ isFileReady' = isFileReady
       /\ downloadUrl' = downloadUrl
       /\ notified' = notified
       /\ readyCalls' = readyCalls
       /\ ~uncaught'
       /\ curTimers' = curTimers
       /\ (mounted /\ ShouldPoll => "poll" \in curTimers')]_vars

C4_Witness ==
  /\ rejected
  /\ mounted
  /\ ~isFileReady
  /\ downloadUrl = NoUrl
  /\ notified = {}
  /\ inflight = <<>>
  /\ ~EffectPending
  /\ "poll" \in curTimers

\* the first '.pdf' of s replaced by '.zip', stated by position
FirstPdfAt(s, i) ==
  /\ i + 3 <= Len(s)
  /\ SubSeq(s, i, i + 3) = <<".", "p", "d", "f">>
  /\ \A j \in 1..(i - 1) : SubSeq(s, j, j + 3) # <<".", "p", "d", "f">>

WithZip(s) ==
  IF \E i \in 1..Len(s) : FirstPdfAt(s, i)
  THEN LET i == CHOOSE k \in 1..Len(s) : FirstPdfAt(s, k)
       IN  SubSeq(s, 1, i - 1) \o <<".", "z", "i", "p">>
             \o SubSeq(s, i + 4, Len(s))
  ELSE s

Underscored(s) ==
  [i \in 1..Len(s) |-> IF s[i] \in {" ", "\t", "\n"} THEN "_" ELSE s[i]]

\* C5: the polled object and the download name are determined by the props:
\* for 'html' the HTML bucket, key 'remediated/final_' + updatedFilename with
\* its first '.pdf' replaced by '.zip' and every whitespace replaced by '_',
\* download name 'final_' + originalFileName with '.pdf' replaced by '.zip';
\* for every other format the PDF bucket, key 'result/COMPLIANT_' +
\* updatedFilename and download name 'COMPLIANT_' + originalFileName.
C5_RequestIsFunctionOfProps ==
  keyOut.computed =>
    IF keyIn.selectedFormat = "html"
    THEN /\ keyOut.bucket = HTMLBucket
         /\ keyOut.key = <<"remediated/final_">>
                           \o Underscored(WithZip(keyIn.updatedFilename))
         /\ keyOut.filename = <<"final_">> \o WithZip(keyIn.originalFileName)
    ELSE /\ keyOut.bucket = PDFBucket
         /\ keyOut.key = <<"result/COMPLIANT_">> \o keyIn.updatedFilename
         /\ keyOut.filename = <<"COMPLIANT_">> \o keyIn.originalFileName

C5_Witness ==
  /\ keyOut.computed
  /\ keyIn.selectedFormat = "html"
  /\ keyIn.updatedFilename = <<".", "p", "d", "f", " ", ".", "p", "d", "f">>
  /\ keyOut.key = <<"remediated/final_", ".", "z", "i", "p", "_",
                    ".", "p", "d", "f">>

DigitValue(c) == CHOOSE d \in 0..9 : DigitChars[d + 1] = c

\* the number a formatted text stands for, its separators ignored
RECURSIVE ShownNumber(_)
ShownNumber(text) ==
  IF text = <<>> THEN 0
  ELSE LET front == SubSeq(text, 1, Len(text) - 1)
           last == text[Len(text)]
       IN  IF \E d \in 0..9 : DigitChars[d + 1] = last
             THEN ShownNumber(front) * 10 + DigitValue(last)
             ELSE ShownNumber(front)

LoadingUsageSet == headerProps.loadingUsage = "true"

UsageErrorSet == headerProps.usageError \notin {Undefined, ""}

\* C6: the Header shows 'Used: <usageCount> / <maxFilesAllowed>' exactly
\* when loadingUsage is not set and usageError is empty; it shows
\* 'Checking usage...' whenever loadingUsage is set, even with a usageError;
\* otherwise, with a usageError, it shows 'Error: <usageError>'.  The
\* progress bar is rendered exactly when neither of the two is set.
C6_HeaderShowsQuota ==
  headerView.rendered =>
    /\ (headerView.text.kind = "Used: ") <=>
         (~LoadingUsageSet /\ ~UsageErrorSet)
    /\ headerView.text.kind = "Used: " =>
         /\ ShownNumber(headerView.text.first) = headerProps.usageCount
         /\ ShownNumber(headerView.text.second) = headerProps.maxFilesAllowed
    /\ LoadingUsageSet => headerView.text.kind = "Checking usage..."
    /\ (~LoadingUsageSet /\ UsageErrorSet) =>
         /\ headerView.text.kind = "Error: "
         /\ headerView.text.first = headerProps.usageError
    /\ headerView.progressBar.shown <=> (~LoadingUsageSet /\ ~UsageErrorSet)

C6_Witness ==
  /\ headerView.rendered
  /\ headerProps.loadingUsage = "true"
  /\ headerProps.usageError = "Failed to fetch usage"
  /\ headerView.text.kind = "Checking usage..."
  /\ ~headerView.progressBar.shown

BothBucketsEmpty == PDF_TO_PDF_BUCKET = "" /\ PDF_TO_HTML_BUCKET = ""

PromptPositions == {"prompt_pdf", "prompt_html", "validate"}

C7_State ==
  /\ (exited /\ dpc = "validate") =>
       /\ BothBucketsEmpty
       /\ exitStatus = 1
       /\ BucketRequiredMessage \in output
       /\ awsCalls = {}
  /\ BucketRequiredMessage \in output => (exited /\ dpc = "validate")
  /\ BothBucketsEmpty => awsCalls = {}
  /\ dpc \notin PromptPositions => ~BothBucketsEmpty

C7_Step ==
  (At("validate") /\ (exited' \/ dpc' # dpc)) =>
    IF BothBucketsEmpty
      THEN exited' /\ exitStatus' = 1 /\ BucketRequiredMessage \in output'
      ELSE ~exited' /\ dpc' = "iam_get_role" /\ awsCalls' = {}

\* C7: in every deploy script, when both bucket names are empty after the
\* prompts the script prints the 'At least one bucket name is required'
\* error and exits with status 1 before any AWS command has run; when one
\* of them is not empty it goes on to the IAM role step.
C7_AtLeastOneBucketRequired == []C7_State /\ [][C7_Step]_vars

C7_Witness ==
  /\ script = "deploy.sh"
  /\ exited
  /\ dpc = "validate"
  /\ exitStatus = 1
  /\ BucketRequiredMessage \in output
  /\ awsCalls = {}

FrontendCalls ==
  {AwsCall("codebuild create-project", "frontend"),
   AwsCall("codebuild start-build", "frontend"),
   AwsCall("codebuild batch-get-builds", "frontend")}

C8_State ==
  script \in TwoStageScripts =>
    /\ (awsCalls \cap FrontendCalls # {}) => backendSeen = "SUCCEEDED"
    /\ dpc \in {"frontend_env", "create_frontend", "start_frontend",
                "wait_frontend", "check_frontend", "outputs", "summary"}
         => backendSeen = "SUCCEEDED"
    /\ dpc = "check_backend" => backendSeen \notin {"", "IN_PROGRESS"}
    /\ (exited /\ dpc = "check_backend") =>
         /\ exitStatus = 1
         /\ backendSeen # "SUCCEEDED"
         /\ awsCalls \cap FrontendCalls = {}
    /\ dpc \in {"outputs", "summary"} => frontendSeen = "SUCCEEDED"
    /\ dpc = "check_frontend" => frontendSeen \notin {"", "IN_PROGRESS"}
    /\ (exited /\ dpc = "check_frontend") =>
         /\ exitStatus = 1
         /\ frontendSeen # "SUCCEEDED"
    /\ DeploymentCompleteMessage \in output => frontendSeen = "SUCCEEDED"
    /\ (exited /\ exitStatus = 0) =>
         /\ frontendSeen = "SUCCEEDED"
         /\ DeploymentCompleteMessage \in output

C8_Step ==
  \A stage \in {"backend", "frontend"} :
    /\ (At(Pos("wait", stage)) /\ ~exited' /\ BUILD_STATUS' = "IN_PROGRESS")
         => dpc' = dpc
    /\ (At(Pos("wait", stage)) /\ ~exited' /\ BUILD_STATUS' # "IN_PROGRESS")
         => dpc' = Pos("check", stage)
    /\ (At(Pos("check", stage)) /\ BUILD_STATUS # "SUCCEEDED")
         => (exited' /\ exitStatus' = 1 /\ awsCalls' = awsCalls)

\* C8: in the two-stage scripts the frontend project is created and its
\* build started only after the backend build has been observed as
\* SUCCEEDED; while the observed status is IN_PROGRESS the script stays in
\* the polling loop; any other status makes it exit with status 1 without
\* creating the frontend project.  In the same way the final summary and
\* the exit with status 0 come only after the frontend build has been
\* observed as SUCCEEDED.
C8_StagesInOrder == []C8_State /\ [][C8_Step]_vars

C8_Witness ==
  /\ script = "deploy.sh"
  /\ exited
  /\ exitStatus = 0
  /\ backendSeen = "SUCCEEDED"
  /\ frontendSeen = "SUCCEEDED"
  /\ AwsCall("codebuild start-build", "frontend") \in awsCalls
  /\ DeploymentCompleteMessage \in output

Supplied(value) == value \notin {Undefined, ""}

\* C9: the constructor throws 'At least one bucket name is required!' when
\* neither the PDF_TO_PDF_BUCKET nor the PDF_TO_HTML_BUCKET context value
\* is supplied, and does not throw when one of them is supplied.
C9_ThrowsWithoutBucket ==
  cdkStep \notin {"new", "validate"} =>
    IF ~Supplied(context.PDF_TO_PDF_BUCKET)
       /\ ~Supplied(context.PDF_TO_HTML_BUCKET)
      THEN cdkStep = "thrown" /\ thrown = BucketRequiredError
      ELSE cdkStep # "thrown" /\ thrown = ""

C10_State ==
  \A r \in Reports :
    LET f == fetch[r] IN
    /\ f.attempts <= f.retries
    /\ ~f.threw
    /\ f.step = "sleep" => (f.attempt < f.retries /\ f.sleeps = f.failures)
    /\ f.reportUrl = "url" => f.step = "done"
    /\ f.step = "done" =>
         IF f.reportUrl = "url"
           THEN /\ f.report = "json"
                /\ f.attempts = f.failures + 1
                /\ f.sleeps = f.failures
           ELSE /\ f.attempts = f.failures
                /\ f.failures > 0 => f.sleeps = f.failures - 1
                /\ f.failures = 0 => f.sleeps = 0

C10_Step ==
  \A r \in Reports :
    /\ fetch[r].step = "done" => fetch'[r] = fetch[r]
    /\ fetch'[r].sleeps > fetch[r].sleeps =>
         /\ fetch'[r].failures = fetch[r].failures + 1
         /\ fetch'[r].step = "sleep"
    /\ fetch[r].step = "sleep" =>
         fetch'[r].step \in {"sleep", "head"}

\* C10: an invocation of fetchBeforeReport or fetchAfterReport makes at most
\* `retries` (3 when not given) attempts, returns right after the first
\* attempt in which the report is loaded and its URL is signed, waits only
\* between a failed attempt and the next one and not after the last, never
\* throws, and terminates.
C10_BoundedRetry ==
  /\ []C10_State
  /\ [][C10_Step]_vars
  /\ \A r \in Reports : (fetch[r].step # "idle") ~> (fetch[r].step = "done")

C10_Witness ==
  /\ fetch["before"].step = "done"
  /\ fetch["before"].retries = DefaultRetries
  /\ fetch["before"].attempts = 3
  /\ fetch["before"].failures = 2
  /\ fetch["before"].sleeps = 2
  /\ fetch["before"].reportUrl = "url"
  /\ fetch["after"].step = "done"
  /\ fetch["after"].reportUrl = "null"
  /\ fetch["after"].attempts = fetch["after"].retries
  /\ fetch["after"].retries > 0

\* C11: once a poll has found the selected bucket undefined or the access
\* key missing (it sends no request), polling has stopped: as long as the
\* inputs of the component stay the same, none of the three timers is
\* active, so no further poll runs.
C11_SkippedPollStopsPolling ==
  skipped => (curTimers = {} /\ staleTimers = {})

\* C12: for one processed file (one mount of the component, its props left
\* as they are) onFileReady is called at most once, whatever the order of
\* timer ticks, effect runs and S3 responses.
C12_OnFileReadyAtMostOnce ==
  (mounts <= 1 /\ propsChanges = 0) =>
    \A f \in FileNames : readyCalls[f] <= 1

\* check i was started for another file name or format than the current
\* ones, or by an instance that has been unmounted since
StaleCheck(i) ==
  \/ ~inflight[i].inst
  \/ inflight[i].updatedFilename # props.updatedFilename
  \/ inflight[i].selectedFormat # props.selectedFormat

\* C13: the late response of a check whose effect has been cleaned up (the
\* file name or format changed, or the component was unmounted) sets neither
\* isFileReady nor downloadUrl and does not call onFileReady.
C13_StaleCheckHasNoEffect ==
  [][\A i \in DOMAIN inflight :
       (inflight' # inflight /\ ResponseStep(i) /\ StaleCheck(i)) =>
         /\ isFileReady' = isFileReady
         /\ downloadUrl' = downloadUrl
         /\ notified' = notified
         /\ readyCalls' = readyCalls]_vars

\* the component is mounted, isFileReady is true and the effect has re-run
ReadyAndSettled == mounted /\ isFileReady /\ ~EffectPending

\* C14: once isFileReady is true and the effect has re-run, none of the three
\* timers is active; while the component stays mounted with isFileReady true
\* no existence check is issued, elapsedTime does not change and no timer is
\* started.
C14_NoTimersOnceReady ==
  /\ [](ReadyAndSettled => (curTimers = {} /\ staleTimers = {}))
  /\ [][(mounted /\ isFileReady /\ mounted' /\ isFileReady') =>
          /\ elapsedTime' = elapsedTime
          /\ checksIssued' = checksIssued
          /\ Len(inflight') <= Len(inflight)
          /\ curTimers' \subseteq curTimers]_vars

C14_Witness ==
  /\ ReadyAndSettled
  /\ effectDeps.isFileReady
  /\ downloadUrl \in notified
  /\ props.updatedFilename # <<>>
  /\ curTimers = {}

\* C15: no timer of an earlier effect run is left active next to the timers
\* of the current run, so at most one timer of each kind is active, and none
\* is active once the component is unmounted.
C15_AtMostOneTimerOfEachKind ==
  /\ staleTimers = {}
  /\ ~mounted => curTimers = {}

\* the effect has re-run because pollingAttempts changed and has created the
\* three timers again
C15_Witness ==
  /\ mounted
  /\ effectRan
  /\ effectDeps.pollingAttempts = 1
  /\ pollingAttempts = 0
  /\ curTimers = Kinds
  /\ staleTimers = {}

\* C16: deploy.sh gets past the construction of the frontend environment,
\* and when it is about to call create-project for the frontend the list holds
\* an entry for each of the seven variables whose value is neither empty nor
\* 'null'.
C16_FrontendProjectGetsCdkOutputs ==
  script = "deploy.sh" =>
    /\ ~(exited /\ dpc = "frontend_env")
    /\ (dpc = "create_frontend" /\ ~exited) =>
         \A n \in 1..Len(CdkOutputVars) :
           shellEnv[CdkOutputVars[n]] \notin {"", "null"} =>
             \E k \in DOMAIN FRONTEND_ENV_VARS_ARRAY :
               FRONTEND_ENV_VARS_ARRAY[k] =
                 EnvVar("REACT_APP_" \o CdkOutputVars[n],
                        shellEnv[CdkOutputVars[n]])

\* the S3 resources the policy may name, given the supplied context values
SuppliedResources ==
  {BucketArn(context[b]) \o "/*" :
     b \in {b \in {"PDF_TO_PDF_BUCKET", "PDF_TO_HTML_BUCKET"} :
              Supplied(context[b])}}

\* C17: in the constructed stack a bucket whose context value is not supplied
\* is not imported, has no REACT_APP_PDF_BUCKET_NAME or
\* REACT_APP_HTML_BUCKET_NAME variable and no entry in the S3 resources; the
\* main bucket is the PDF-to-PDF bucket when supplied, the PDF-to-HTML bucket
\* otherwise. Stated for the stacks that were given at least one bucket.
C17_UnsuppliedBucketUnused ==
  (/\ cdkStep = "constructed"
   /\ \/ Supplied(context.PDF_TO_PDF_BUCKET)
      \/ Supplied(context.PDF_TO_HTML_BUCKET)) =>
    /\ ~Supplied(context.PDF_TO_PDF_BUCKET) =>
         /\ pdfBucket = Undefined
         /\ \A v \in branchEnvironment : v.name # "REACT_APP_PDF_BUCKET_NAME"
    /\ ~Supplied(context.PDF_TO_HTML_BUCKET) =>
         /\ htmlBucket = Undefined
         /\ \A v \in branchEnvironment : v.name # "REACT_APP_HTML_BUCKET_NAME"
    /\ \A k \in DOMAIN s3Resources : s3Resources[k] \in SuppliedResources
    /\ mainBucket = IF Supplied(context.PDF_TO_PDF_BUCKET)
                      THEN context.PDF_TO_PDF_BUCKET
                      ELSE context.PDF_TO_HTML_BUCKET

\* C18: a script that ended at create-project or at start-build (the command
\* failed) has printed the matching 'Failed to ...' message and has exit
\* status 1; the step after the failed command has not run.
C18_FailedCommandIsReported ==
  \A stage \in StagesOf(script) :
    /\ (exited /\ dpc = Pos("create", stage)) =>
         /\ CreateFailedMessage(stage) \in output
         /\ exitStatus = 1
         /\ AwsCall("codebuild start-build", stage) \notin awsCalls
    /\ (exited /\ dpc = Pos("start", stage)) =>
         /\ StartFailedMessage(stage) \in output
         /\ exitStatus = 1
         /\ AwsCall("codebuild batch-get-builds", stage) \notin awsCalls
         /\ DeploymentCompleteMessage \notin output

\* C19: the files list is the result of the youngest loadAll call that has
\* got a result: it is never set back by the late response of an older call.
C19_NewestLoadWins ==
  files = newest.files

\* the entries of files without a download link
NullLinks == {k \in DOMAIN files : files[k].download_link = Null}

\* C20: a loadAll call in which a listing was rejected never sets files (in
\* the step of the rejection files keeps its value) and exactly these calls
\* log an error; a call in which only the signing of a URL threw is not
\* among them, and when it sets files the entry is listed with a null link.
C20_FilesReplacedAtomically ==
  /\ [](appliedLoad \notin failedLoads)
  /\ [](logged = failedLoads)
  /\ [](NullLinks # {} <=> appliedLoad \in unsignedLoads)
  /\ [][failedLoads' # failedLoads => files' = files]_vars
  /\ [][files' # files => appliedLoad' \notin failedLoads']_vars

\* the first call listed an object whose signing threw and set files with a
\* null link; the second call listed one bucket and was rejected on the
\* other, and files is still the result of the first
C20_Witness ==
  /\ loads = <<>>
  /\ appliedLoad = 1
  /\ 1 \in unsignedLoads
  /\ NullLinks # {}
  /\ 2 \in failedLoads
  /\ 2 \in unsignedLoads
  /\ 2 \in logged

\* the name without the leading <user>_<at least 8 digits>_ prefix: the
\* shortest prefix of that form is removed and everything after it is kept
WithoutLeadingPrefix(name) ==
  IF PrefixMatchEnds(name) = {} THEN name
  ELSE SubSeq(name, Least(PrefixMatchEnds(name)) + 1, Len(name))

\* the readable name of a sanitized file name
ReadableName(name) ==
  Trim(ReplaceEvery(
         ReplaceEvery(WithoutLeadingPrefix(RemoveCompliant(name)),
                      <<"_">>, <<" ">>),
         Percent20, <<" ">>))

\* the parts of the contract that do not depend on which prefix is removed
EmptyUnchangedAndIdempotent ==
  /\ (normalizeCalls >= 1 /\ sanitized \in {<<>>, Missing}) =>
       readable = sanitized
  /\ normalizeCalls = 2 => readableAgain = readable

\* C21: normalizePdfFilename returns an empty or missing name unchanged;
\* otherwise it removes a leading COMPLIANT_, then only the leading
\* <user>_<at least 8 digits>_ prefix, keeps all of the rest with '_' and
\* '%20' replaced by spaces, and trims; a second call on the result returns
\* the result.
C21_NormalizeKeepsTheFileName ==
  /\ EmptyUnchangedAndIdempotent
  /\ (normalizeCalls >= 1 /\ sanitized \notin {<<>>, Missing}) =>
       readable = ReadableName(sanitized)

====
